---- MODULE Spec2Model ----
(***************************************************************************)
(* Model of the solar project finance calculator                           *)
(* (src/backend/calculator.py): the calculation chain of                   *)
(* SolarFinanceCalculator over one ProjectInputs record, the financial     *)
(* primitives irr_calc / pmt_calc / npv_calc, and the report builders.     *)
(*                                                                         *)
(* Numbers.  The program computes in Python floats.  The model computes in *)
(* exact rational arithmetic: a number is a pair <<n, d>> in lowest terms  *)
(* with d > 0.  The tests of the repository compare floats within a        *)
(* tolerance; an equality of the model is the exact statement of which the *)
(* float equality "within tolerance" is the image.  None is << >>.         *)
(* The reference project of the tests, whose 25 years of cash flows leave  *)
(* the fractions the model can hold, is computed in decimals of 20 places. *)
(***************************************************************************)
EXTENDS Integers, Sequences, FiniteSets, TLC

VARIABLES inputs, ret

vars == <<inputs, ret>>

----------------------------------------------------------------------------
(* Exact rational arithmetic *)

None == << >>

Abs(n) == IF n < 0 THEN -n ELSE n

RECURSIVE GCD(_, _)
GCD(a, b) == IF b = 0 THEN a ELSE GCD(b, a % b)

\* the rational n/d in lowest terms, d # 0
Q(n, d) ==
    LET g == GCD(Abs(n), Abs(d))
        s == IF d < 0 THEN -1 ELSE 1
    IN  <<s * (n \div g), s * (d \div g)>>

I(n) == <<n, 1>>

Zero == I(0)
One == I(1)

Neg(x) == <<-x[1], x[2]>>

Add(x, y) ==
    IF x[2] = y[2]
    THEN Q(x[1] + y[1], x[2])
    ELSE LET g == GCD(x[2], y[2])
         IN  Q(x[1] * (y[2] \div g) + y[1] * (x[2] \div g), (x[2] \div g) * y[2])

Sub(x, y) ==
    IF x[2] = y[2]
    THEN Q(x[1] - y[1], x[2])
    ELSE LET g == GCD(x[2], y[2])
         IN  Q(x[1] * (y[2] \div g) - y[1] * (x[2] \div g), (x[2] \div g) * y[2])

Mul(x, y) ==
    IF x[1] = 0 \/ y[1] = 0
    THEN Zero
    ELSE LET g1 == GCD(Abs(x[1]), y[2])
             g2 == GCD(Abs(y[1]), x[2])
         IN  Q((x[1] \div g1) * (y[1] \div g2), (x[2] \div g2) * (y[2] \div g1))

\* x / y for y # 0 (the callers model Python's ZeroDivisionError themselves)
Div(x, y) == Mul(x, IF y[1] < 0 THEN <<-y[2], -y[1]>> ELSE <<y[2], y[1]>>)

Lt(x, y) == Sub(x, y)[1] < 0
Le(x, y) == Sub(x, y)[1] <= 0

IsZero(x) == x[1] = 0

RECURSIVE Pow(_, _)
Pow(x, k) == IF k = 0 THEN One ELSE Mul(x, Pow(x, k - 1))

\* Python's min(a, b): b only when b < a
Min2(a, b) == IF Lt(b, a) THEN b ELSE a

----------------------------------------------------------------------------
(* Bounds and input domains *)

MaxTenor == 2
MaxLifetime == 2

\* ProjectInputs field domains the model draws from (request layer ranges:
\* capacity > 0, yield > 0, capex > 0, price > 0, om > 0, 0 <= degradation
\* <= 0.1, -0.1 <= escalations <= 0.1, 0 <= gearing <= 1, 0 < interest <=
\* 0.2, tenor > 0, target DSCR > 1, lifetime > 0, 0 <= tax <= 1,
\* 0 < discount <= 0.3)
CapacitySet == {I(1)}
YieldSet == {I(64)}
CapExSet == {I(8), I(10)}
PriceSet == {I(1), Q(17, 16)}
OMSet == {I(44), I(53), I(63), I(65)}
\* <<Degradation_Rate, PPA_Escalation, OM_Escalation>>
RateSet == {<<Zero, Zero, Zero>>, <<Q(1, 10), Zero, Zero>>,
            <<Zero, Q(1, 10), Zero>>, <<Zero, Zero, Q(1, 10)>>}
GearingSet == {Zero, Q(1, 2), One}
InterestSet == {Q(1, 10)}
TargetDSCRSet == {I(2)}
TaxSet == {Zero, Q(1, 2), One}
DiscountSet == {Q(1, 4)}

ProjectInputs ==
    {[Capacity |-> c, P50_Year_0_Yield |-> y, CapEx_per_MW |-> x,
      PPA_Price |-> p, OM_Cost_per_MW_year |-> om,
      Degradation_Rate |-> r[1], PPA_Escalation |-> r[2], OM_Escalation |-> r[3],
      Gearing_Ratio |-> g, Interest_Rate |-> i, Debt_Tenor |-> n,
      Target_DSCR |-> d, Project_Lifetime |-> l, Tax_Rate |-> t,
      Discount_Rate |-> dr] :
        c \in CapacitySet, y \in YieldSet, x \in CapExSet, p \in PriceSet,
        om \in OMSet, r \in RateSet, g \in GearingSet, i \in InterestSet,
        n \in 1..MaxTenor, d \in TargetDSCRSet, l \in 1..MaxLifetime,
        t \in TaxSet, dr \in DiscountSet}

----------------------------------------------------------------------------
(* Financial functions *)

\* sum of f[i] for i in lo..hi, accumulated in increasing i as the loops do
RECURSIVE SumTo(_, _, _)
SumTo(f, lo, hi) == IF hi < lo THEN Zero ELSE Add(SumTo(f, lo, hi - 1), f[hi])

HoursPerYear == 8760

pmt_calc(rate, nper, pv, fv) ==
    IF IsZero(rate)
    THEN Neg(Div(Add(pv, fv), I(nper)))
    ELSE Div(Mul(Neg(rate), Add(Mul(pv, Pow(Add(One, rate), nper)), fv)),
             Sub(Pow(Add(One, rate), nper), One))

----------------------------------------------------------------------------
(* SolarFinanceCalculator: intermediate calculations.  self is the         *)
(* calculator, i.e. its inputs record.                                     *)
(*                                                                         *)
(* A local variable that a method assigns from a call before it uses it,   *)
(* v = self.calc_X(), is bound as v \in {calc_X(self)}: the call is        *)
(* evaluated first, as in the code, and the method's result is the one     *)
(* element of the set the bindings give.                                   *)

calc_Capacity_Factor(self) ==
    Div(self.P50_Year_0_Yield, Mul(self.Capacity, I(HoursPerYear)))

calc_Total_CapEx(self) == Mul(self.Capacity, self.CapEx_per_MW)

calc_Energy_year_t(self, year) ==
    Mul(self.P50_Year_0_Yield, Pow(Sub(One, self.Degradation_Rate), year - 1))

calc_Revenue_year_t(self, year) ==
    CHOOSE result \in
        {Mul(Mul(energy, self.PPA_Price), Pow(Add(One, self.PPA_Escalation), year - 1)) :
            energy \in {calc_Energy_year_t(self, year)}} : TRUE

calc_OM_year_t(self, year) ==
    Mul(Mul(self.Capacity, self.OM_Cost_per_MW_year),
        Pow(Add(One, self.OM_Escalation), year - 1))

calc_EBITDA_year_t(self, year) ==
    CHOOSE result \in
        {Sub(revenue, om) :
            revenue \in {calc_Revenue_year_t(self, year)},
            om \in {calc_OM_year_t(self, year)}} : TRUE

\* variant: CFADS before tax
calc_CFADS_year_t_untaxed(self, year) == calc_EBITDA_year_t(self, year)

calc_CFADS_year_t(self, year) ==
    CHOOSE result \in
        {Mul(ebitda, Sub(One, self.Tax_Rate)) :
            ebitda \in {calc_EBITDA_year_t(self, year)}} : TRUE

calc_PV_of_CFADS(self) ==
    SumTo([year \in 1..self.Debt_Tenor |->
              CHOOSE term \in
                  {Div(cfads, discount_factor) :
                      cfads \in {calc_CFADS_year_t(self, year)},
                      discount_factor \in {Pow(Add(One, self.Interest_Rate), year)}} : TRUE],
          1, self.Debt_Tenor)

calc_Max_Debt_by_DSCR(self) ==
    CHOOSE result \in
        {Div(pv_cfads, self.Target_DSCR) :
            pv_cfads \in {calc_PV_of_CFADS(self)}} : TRUE

calc_Max_Debt_by_Gearing(self) ==
    CHOOSE result \in
        {Mul(total_capex, self.Gearing_Ratio) :
            total_capex \in {calc_Total_CapEx(self)}} : TRUE

\* variant: debt sized by the gearing cap alone
calc_Final_Debt_gearing_only(self) == calc_Max_Debt_by_Gearing(self)

calc_Final_Debt(self) ==
    CHOOSE result \in
        {Min2(max_debt_dscr, max_debt_gearing) :
            max_debt_dscr \in {calc_Max_Debt_by_DSCR(self)},
            max_debt_gearing \in {calc_Max_Debt_by_Gearing(self)}} : TRUE

\* variant: equity taken against the gearing cap instead of the final debt
calc_Equity_from_gearing_cap(self) ==
    Sub(calc_Total_CapEx(self), calc_Max_Debt_by_Gearing(self))

calc_Equity(self) ==
    CHOOSE result \in
        {Sub(total_capex, final_debt) :
            total_capex \in {calc_Total_CapEx(self)},
            final_debt \in {calc_Final_Debt(self)}} : TRUE

\* variant: debt service on the DSCR cap instead of the final debt
calc_Annual_Debt_Service_on_dscr_cap(self) ==
    Neg(pmt_calc(self.Interest_Rate, self.Debt_Tenor, calc_Max_Debt_by_DSCR(self), Zero))

calc_Annual_Debt_Service(self) ==
    CHOOSE result \in
        {Neg(pmt_calc(self.Interest_Rate, self.Debt_Tenor, final_debt, Zero)) :
            final_debt \in {calc_Final_Debt(self)}} : TRUE

\* variant: the debt service is deducted in every year of the project
calc_FCF_to_Equity_year_t_always_serviced(self, year) ==
    CHOOSE result \in
        {Sub(cfads, annual_ds) :
            cfads \in {calc_CFADS_year_t(self, year)},
            annual_ds \in {calc_Annual_Debt_Service(self)}} : TRUE

calc_FCF_to_Equity_year_t(self, year) ==
    CHOOSE result \in
        {IF year <= self.Debt_Tenor
         THEN CHOOSE difference \in
                  {Sub(cfads, annual_ds) :
                      annual_ds \in {calc_Annual_Debt_Service(self)}} : TRUE
         ELSE cfads :
            cfads \in {calc_CFADS_year_t(self, year)}} : TRUE

calc_NPV_of_Costs(self) ==
    Add(calc_Total_CapEx(self),
        SumTo([year \in 1..self.Project_Lifetime |->
                  Div(calc_OM_year_t(self, year),
                      Pow(Add(One, self.Discount_Rate), year))],
              1, self.Project_Lifetime))

calc_NPV_of_Energy(self) ==
    SumTo([year \in 1..self.Project_Lifetime |->
              Div(calc_Energy_year_t(self, year),
                  Pow(Add(One, self.Discount_Rate), year))],
          1, self.Project_Lifetime)

\* variant: no test of the year against the debt tenor
calc_DSCR_year_t_any_year(self, year) ==
    IF IsZero(calc_Annual_Debt_Service(self))
    THEN None
    ELSE Div(calc_CFADS_year_t(self, year), calc_Annual_Debt_Service(self))

calc_DSCR_year_t(self, year) ==
    IF year > self.Debt_Tenor
    THEN None
    ELSE CHOOSE result \in
             {IF IsZero(annual_ds) THEN None ELSE Div(cfads, annual_ds) :
                 cfads \in {calc_CFADS_year_t(self, year)},
                 annual_ds \in {calc_Annual_Debt_Service(self)}} : TRUE

----------------------------------------------------------------------------
(* irr_calc: Newton's method on the NPV function.                          *)
(*                                                                         *)
(* The first pass of the loop (rate = guess) and the entry of the second   *)
(* pass are computed exactly.  The iterates of the later passes have       *)
(* numerators and denominators beyond the integer range of the model; the  *)
(* rate returned from a later pass is left open: any rate of LaterRates.   *)

Guess == Q(1, 10)

\* 1e-6 and 1e-10; 10^10 itself is written as a product of two factors
NpvTolDen == 1000000
DerivTolDenA == 100000
DerivTolDenB == 100000

\* |x| < 1/den, without forming |x[1]| * den
AbsLtInv(x, den) == Abs(x[1]) <= (x[2] - 1) \div den

\* |x| < 1/(denA * denB)
AbsLtInv2(x, denA, denB) == Abs(x[1]) <= ((x[2] - 1) \div denA) \div denB

\* values[i] of the code is values[i + 1] here
npv_at_rate(values, rate) ==
    SumTo([k \in 1..Len(values) |-> Div(values[k], Pow(Add(One, rate), k - 1))],
          1, Len(values))

npv_derivative(values, rate) ==
    SumTo([k \in 1..Len(values) |->
              Div(Mul(I(-(k - 1)), values[k]), Pow(Add(One, rate), k))],
          1, Len(values))

\* Where the first pass of the loop leaves: "converged" (return rate),
\* "break" (derivative below 1e-10, rate returned after the loop) or
\* "update" (rate = rate - npv_val / npv_deriv, and the loop goes on)
irr_first_pass(values, guess) ==
    LET npv_val == npv_at_rate(values, guess)
        npv_deriv == npv_derivative(values, guess)
    IN  IF AbsLtInv(npv_val, NpvTolDen)
        THEN "converged"
        ELSE IF AbsLtInv2(npv_deriv, DerivTolDenA, DerivTolDenB)
             THEN "break"
             ELSE "update"

\* rate - npv_val / npv_deriv = -1 after the update of the first pass; the
\* quotient is not formed: npv_val = (rate + 1) * npv_deriv, npv_deriv # 0
updated_rate_is_minus_one(values, guess) ==
    npv_at_rate(values, guess) = Mul(Add(guess, One), npv_derivative(values, guess))

\* val / (1 + rate) ** i raises ZeroDivisionError when 1 + rate = 0 and
\* i >= 1: the second pass raises when the first left rate = -1
second_pass_raises(values, guess) ==
    Len(values) >= 2 /\ updated_rate_is_minus_one(values, guess)

\* rates a later pass may return
LaterRates == {Q(1, 20), Q(3, 20)}

Raise(e) == [raised |-> e, value |-> None]
Return(v) == [raised |-> "none", value |-> v]

\* how irr_calc leaves its loop: "converged" and "break" in the first pass,
\* "raised" in the second, "later" in a pass the model does not compute
irr_exit(values, guess) ==
    IF irr_first_pass(values, guess) # "update"
    THEN irr_first_pass(values, guess)
    ELSE IF second_pass_raises(values, guess) THEN "raised" ELSE "later"

\* The outcomes of irr_calc(values, guess)
irr_calc(values, guess) ==
    CASE irr_exit(values, guess) \in {"converged", "break"} -> {Return(guess)}
      [] irr_exit(values, guess) = "raised" -> {Raise("ZeroDivisionError")}
      [] irr_exit(values, guess) = "later" -> {Return(r) : r \in LaterRates}

----------------------------------------------------------------------------
(* SolarFinanceCalculator: key outputs *)

ProjectCashFlows(self) ==
    <<Neg(calc_Total_CapEx(self))>> \o
    [year \in 1..self.Project_Lifetime |-> calc_CFADS_year_t(self, year)]

EquityCashFlows(self) ==
    <<Neg(calc_Equity(self))>> \o
    [year \in 1..self.Project_Lifetime |-> calc_FCF_to_Equity_year_t(self, year)]

\* the list cash_flows is built first, then passed to irr_calc
calc_Project_IRR(self) ==
    UNION {irr_calc(cash_flows, Guess) : cash_flows \in {ProjectCashFlows(self)}}

calc_Equity_IRR(self) ==
    UNION {irr_calc(cash_flows, Guess) : cash_flows \in {EquityCashFlows(self)}}

calc_LCOE(self) == Div(calc_NPV_of_Costs(self), calc_NPV_of_Energy(self))

\* dscr_values of calc_Minimum_DSCR / calc_Average_DSCR
dscr_values(self) ==
    SelectSeq([year \in 1..self.Debt_Tenor |-> calc_DSCR_year_t(self, year)],
              LAMBDA d : d # None)

RECURSIVE MinSeq(_)
MinSeq(s) == IF Len(s) = 1 THEN s[1] ELSE Min2(MinSeq(SubSeq(s, 1, Len(s) - 1)), s[Len(s)])

\* variant: the DSCR of the first year taken for the minimum
calc_Minimum_DSCR_first_year(self) == calc_DSCR_year_t(self, 1)

calc_Minimum_DSCR(self) ==
    IF dscr_values(self) # << >> THEN MinSeq(dscr_values(self)) ELSE None

calc_Average_DSCR(self) ==
    IF dscr_values(self) # << >>
    THEN Div(SumTo(dscr_values(self), 1, Len(dscr_values(self))),
             I(Len(dscr_values(self))))
    ELSE None

calc_Project_NPV(self) ==
    Add(Neg(calc_Total_CapEx(self)),
        SumTo([year \in 1..self.Project_Lifetime |->
                  Div(calc_CFADS_year_t(self, year),
                      Pow(Add(One, self.Discount_Rate), year))],
              1, self.Project_Lifetime))

\* the loop of calc_Equity_Payback_Period from `year` on, cumulative_fcf
\* being the running sum through year - 1
RECURSIVE equity_payback_from(_, _, _)
equity_payback_from(self, year, cumulative_fcf) ==
    IF year > self.Project_Lifetime
    THEN IF Lt(cumulative_fcf, Zero) THEN None ELSE I(self.Project_Lifetime)
    ELSE LET fcf == calc_FCF_to_Equity_year_t(self, year)
             prev_cumulative == cumulative_fcf
             cumulative == Add(cumulative_fcf, fcf)
         IN  IF Lt(prev_cumulative, Zero) /\ Le(Zero, cumulative)
             THEN LET fraction == IF ~IsZero(fcf)
                                  THEN Div(Neg(prev_cumulative), fcf)
                                  ELSE Zero
                  IN  Add(I(year - 1), fraction)
             ELSE equity_payback_from(self, year + 1, cumulative)

\* variant: the crossing year itself, without interpolation inside the year
calc_Equity_Payback_Period_whole_years(self) ==
    CHOOSE result \in
        {IF p = None THEN None
         ELSE I((p[1] \div p[2]) + (IF p[1] % p[2] = 0 THEN 0 ELSE 1)) :
            p \in {equity_payback_from(self, 1, Zero)}} : TRUE

calc_Equity_Payback_Period(self) == equity_payback_from(self, 1, Zero)

RECURSIVE project_payback_from(_, _, _)
project_payback_from(self, year, cumulative_cfads) ==
    IF year > self.Project_Lifetime
    THEN IF Lt(cumulative_cfads, calc_Total_CapEx(self))
         THEN None
         ELSE I(self.Project_Lifetime)
    ELSE LET cfads == calc_CFADS_year_t(self, year)
             prev_cumulative == cumulative_cfads
             cumulative == Add(cumulative_cfads, cfads)
         IN  IF Le(calc_Total_CapEx(self), cumulative)
             THEN LET fraction == IF ~IsZero(cfads)
                                  THEN Div(Sub(calc_Total_CapEx(self), prev_cumulative), cfads)
                                  ELSE Zero
                  IN  Add(I(year - 1), fraction)
             ELSE project_payback_from(self, year + 1, cumulative)

\* variant: the crossing year itself, without interpolation inside the year
calc_Project_Payback_Period_whole_years(self) ==
    CHOOSE result \in
        {IF p = None THEN None
         ELSE I((p[1] \div p[2]) + (IF p[1] % p[2] = 0 THEN 0 ELSE 1)) :
            p \in {project_payback_from(self, 1, Zero)}} : TRUE

\* variant: the fraction added to the crossing year instead of the year before
calc_Project_Payback_Period_from_crossing_year(self) ==
    CHOOSE result \in
        {IF p = None THEN None ELSE Add(p, One) :
            p \in {project_payback_from(self, 1, Zero)}} : TRUE

calc_Project_Payback_Period(self) == project_payback_from(self, 1, Zero)

----------------------------------------------------------------------------
(* Monthly operations.  Their code is not part of the sources at hand      *)
(* (test_calculator.py and main.py call them); they are modelled from the  *)
(* specification: X_month(t, m) = X_year(t) / 12.                          *)

MonthsPerYear == 12

calc_Energy_month_t(self, year, month) ==
    Div(calc_Energy_year_t(self, year), I(MonthsPerYear))

calc_Revenue_month_t(self, year, month) ==
    Div(calc_Revenue_year_t(self, year), I(MonthsPerYear))

calc_OM_month_t(self, year, month) ==
    Div(calc_OM_year_t(self, year), I(MonthsPerYear))

calc_CFADS_month_t(self, year, month) ==
    Div(calc_CFADS_year_t(self, year), I(MonthsPerYear))

\* variant: monthly FCF split from CFADS, debt service left out
calc_FCF_to_Equity_month_t_from_cfads(self, year, month) ==
    Div(calc_CFADS_year_t(self, year), I(MonthsPerYear))

calc_FCF_to_Equity_month_t(self, year, month) ==
    Div(calc_FCF_to_Equity_year_t(self, year), I(MonthsPerYear))

----------------------------------------------------------------------------
(* Reports *)

\* assess_project compares min_dscr with 1.30: None >= 1.30 is a TypeError
assess_raises(project_irr, equity_irr, min_dscr) == min_dscr = None

\* The assessment texts are the code's texts after their leading mark (a
\* check mark, a warning sign or a cross); the tests of the overall verdict (every
\* text has the check mark, no text has the cross) are membership of the
\* text in GoodTexts, PoorTexts.

\* variant: the marginal texts counted with the good ones
GoodTexts_with_marginal ==
    {"GOOD - Exceeds 8% threshold", "GOOD - Exceeds 12% threshold",
     "GOOD - Exceeds 1.30x threshold", "MARGINAL - Between 6-8%",
     "MARGINAL - Between 9-12%", "MARGINAL - Between 1.20-1.30x"}

GoodTexts == {"GOOD - Exceeds 8% threshold", "GOOD - Exceeds 12% threshold",
              "GOOD - Exceeds 1.30x threshold"}
PoorTexts == {"POOR - Below 6%", "POOR - Below 9%", "POOR - Below 1.20x"}

assess_project(project_irr, equity_irr, min_dscr) ==
    LET a_project_irr ==
            IF Le(Q(8, 100), project_irr) THEN "GOOD - Exceeds 8% threshold"
            ELSE IF Le(Q(6, 100), project_irr) THEN "MARGINAL - Between 6-8%"
            ELSE "POOR - Below 6%"
        a_equity_irr ==
            IF Le(Q(12, 100), equity_irr) THEN "GOOD - Exceeds 12% threshold"
            ELSE IF Le(Q(9, 100), equity_irr) THEN "MARGINAL - Between 9-12%"
            ELSE "POOR - Below 9%"
        a_dscr ==
            IF Le(Q(130, 100), min_dscr) THEN "GOOD - Exceeds 1.30x threshold"
            ELSE IF Le(Q(120, 100), min_dscr) THEN "MARGINAL - Between 1.20-1.30x"
            ELSE "POOR - Below 1.20x"
        values == {a_project_irr, a_equity_irr, a_dscr}
    IN  [project_irr |-> a_project_irr,
         equity_irr |-> a_equity_irr,
         dscr |-> a_dscr,
         overall |->
            IF \A v \in values : v \in GoodTexts
            THEN "RECOMMEND - Proceed to detailed financing"
            ELSE IF \A v \in values : v \notin PoorTexts
                 THEN "REVIEW - May be viable with optimization"
                 ELSE "DO NOT PROCEED - Economics not viable"]

\* variant: equal caps classified as "DSCR"
binding_constraint_ties_dscr(self) ==
    IF Le(calc_Max_Debt_by_DSCR(self), calc_Max_Debt_by_Gearing(self))
    THEN "DSCR"
    ELSE "Gearing"

\* "DSCR" if max_debt_dscr < max_debt_gearing else "Gearing"
binding_constraint(self) ==
    IF Lt(calc_Max_Debt_by_DSCR(self), calc_Max_Debt_by_Gearing(self))
    THEN "DSCR"
    ELSE "Gearing"

\* the dict generate_summary_report returns, before its IRR entries and its
\* assessment are filled in
summary_report(self) ==
    [project_summary |->
        [capacity_mw |-> self.Capacity,
         capacity_factor |-> calc_Capacity_Factor(self),
         p50_year_0_yield_mwh |-> self.P50_Year_0_Yield,
         project_lifetime |-> self.Project_Lifetime,
         total_capex |-> calc_Total_CapEx(self),
         capex_per_mw |-> self.CapEx_per_MW],
     financing_structure |->
        [max_debt_by_dscr |-> calc_Max_Debt_by_DSCR(self),
         max_debt_by_gearing |-> calc_Max_Debt_by_Gearing(self),
         final_debt |-> calc_Final_Debt(self),
         equity |-> calc_Equity(self),
         actual_gearing |-> Div(calc_Final_Debt(self), calc_Total_CapEx(self)),
         binding_constraint |-> binding_constraint(self),
         interest_rate |-> self.Interest_Rate,
         debt_tenor |-> self.Debt_Tenor,
         annual_debt_service |-> calc_Annual_Debt_Service(self)],
     key_metrics |->
        [project_irr |-> None,
         equity_irr |-> None,
         lcoe |-> calc_LCOE(self),
         min_dscr |-> calc_Minimum_DSCR(self),
         avg_dscr |-> calc_Average_DSCR(self),
         project_npv |-> calc_Project_NPV(self),
         ppa_price |-> self.PPA_Price,
         equity_payback_years |-> calc_Equity_Payback_Period(self),
         project_payback_years |-> calc_Project_Payback_Period(self)],
     first_year_operations |->
        [energy_production_mwh |-> calc_Energy_year_t(self, 1),
         revenue |-> calc_Revenue_year_t(self, 1),
         om_costs |-> calc_OM_year_t(self, 1),
         ebitda |-> calc_EBITDA_year_t(self, 1),
         cfads |-> calc_CFADS_year_t(self, 1)],
     assessment |-> None]

\* The outcomes of generate_summary_report: the first statement that raises
\* ends it (calc_Project_IRR, calc_Equity_IRR, then assess_project)
generate_summary_report(self) ==
    LET min_dscr == calc_Minimum_DSCR(self)
        report == summary_report(self)
    IN  {IF p.raised # "none" THEN Raise(p.raised)
         ELSE IF e.raised # "none" THEN Raise(e.raised)
         ELSE IF assess_raises(p.value, e.value, min_dscr)
              THEN Raise("TypeError")
              ELSE Return([report EXCEPT
                              !.key_metrics.project_irr = p.value,
                              !.key_metrics.equity_irr = e.value,
                              !.assessment = assess_project(p.value, e.value, min_dscr)]) :
            p \in calc_Project_IRR(self), e \in calc_Equity_IRR(self)}

generate_yearly_data(self) ==
    LET years == [i \in 1..self.Project_Lifetime |-> i]
        annual_debt_service == calc_Annual_Debt_Service(self)
        fcf(year) == calc_FCF_to_Equity_year_t(self, year)
    IN  [years |-> years,
         energy_production_mwh |-> [i \in 1..Len(years) |-> calc_Energy_year_t(self, years[i])],
         revenue |-> [i \in 1..Len(years) |-> calc_Revenue_year_t(self, years[i])],
         om_costs |-> [i \in 1..Len(years) |-> calc_OM_year_t(self, years[i])],
         ebitda |-> [i \in 1..Len(years) |-> calc_EBITDA_year_t(self, years[i])],
         cfads |-> [i \in 1..Len(years) |-> calc_CFADS_year_t(self, years[i])],
         fcf_to_equity |-> [i \in 1..Len(years) |-> fcf(years[i])],
         debt_service |-> [i \in 1..Len(years) |->
                              IF years[i] <= self.Debt_Tenor
                              THEN annual_debt_service
                              ELSE Zero],
         dscr |-> [i \in 1..Len(years) |->
                      IF years[i] <= self.Debt_Tenor
                      THEN IF calc_DSCR_year_t(self, years[i]) # None
                           THEN calc_DSCR_year_t(self, years[i])
                           ELSE Zero
                      ELSE None],
         cumulative_fcf_to_equity |->
            [i \in 1..Len(years) |-> SumTo([y \in 1..i |-> fcf(years[y])], 1, i)]]

\* x if x else 0
OrZero(x) == IF x # None /\ ~IsZero(x) THEN x ELSE Zero

\* generate_calculation_audit_log: the results of the 23 calculation steps,
\* the binding_constraint block and the key assumptions (the formula and
\* calculation texts are not modelled), before steps 18 and 19, the two
\* IRR values, are filled in
audit_log(self) ==
    [calculation_steps |->
        <<calc_Capacity_Factor(self),
          calc_Total_CapEx(self),
          calc_Energy_year_t(self, 1),
          calc_Revenue_year_t(self, 1),
          calc_OM_year_t(self, 1),
          calc_EBITDA_year_t(self, 1),
          calc_CFADS_year_t(self, 1),
          calc_PV_of_CFADS(self),
          calc_Max_Debt_by_DSCR(self),
          calc_Max_Debt_by_Gearing(self),
          calc_Final_Debt(self),
          calc_Equity(self),
          calc_Annual_Debt_Service(self),
          calc_FCF_to_Equity_year_t(self, 1),
          OrZero(calc_DSCR_year_t(self, 1)),
          calc_NPV_of_Costs(self),
          calc_NPV_of_Energy(self),
          None,
          None,
          calc_LCOE(self),
          OrZero(calc_Minimum_DSCR(self)),
          OrZero(calc_Average_DSCR(self)),
          calc_Project_NPV(self)>>,
     binding_constraint |->
        [debt_sizing |->
            [max_by_dscr |-> calc_Max_Debt_by_DSCR(self),
             max_by_gearing |-> calc_Max_Debt_by_Gearing(self),
             chosen |-> calc_Final_Debt(self),
             constraint |-> binding_constraint(self)]],
     key_assumptions |-> self]

generate_calculation_audit_log(self) ==
    LET log == audit_log(self)
    IN  {IF p.raised # "none" THEN Raise(p.raised)
         ELSE IF e.raised # "none" THEN Raise(e.raised)
         ELSE Return([log EXCEPT !.calculation_steps[18] = p.value,
                                 !.calculation_steps[19] = e.value]) :
            p \in calc_Project_IRR(self), e \in calc_Equity_IRR(self)}

----------------------------------------------------------------------------
(* The state machine.  `inputs` is the ProjectInputs of the calculator      *)
(* under construction or in use; `ret` is the operation called on the      *)
(* calculator, with its arguments and its outcome.  A calculator is        *)
(* constructed (main.py calculate_project, and each test) and an operation *)
(* is called on it.  No operation assigns to the calculator or to its      *)
(* inputs, so the outcome of a call is independent of the calls made       *)
(* before it on the same calculator: each call is modelled on a newly      *)
(* constructed calculator.  ProjectInputs is a dataclass that is not       *)
(* frozen, and the calculator keeps a reference to the object it was given *)
(* (self.inputs = inputs): the caller can assign to a field of it, as      *)
(* test_high_ppa_price_improves_irr does with PPA_Price, and the calls     *)
(* made afterwards read the assigned value.                                *)

Called(op, args, outcome) ==
    [op |-> op, args |-> args, raised |-> outcome.raised, value |-> outcome.value]

\* the calculator is ready for a call: it has been constructed, or its
\* caller has just assigned to a field of its inputs
Constructed == ret.op \in {"__init__", "__setattr__"}

Months == 1..MonthsPerYear

Init ==
    /\ inputs \in ProjectInputs
    /\ ret = Called("__init__", << >>, Return(None))

\* calculator = SolarFinanceCalculator(inputs)
Construct ==
    /\ ~Constructed
    /\ ret' = Called("__init__", << >>, Return(None))
    /\ UNCHANGED inputs

\* inputs.PPA_Price = p, by the holder of the ProjectInputs object
Assign_PPA_Price ==
    /\ Constructed
    /\ \E p \in PriceSet :
          /\ inputs' = [inputs EXCEPT !.PPA_Price = p]
          /\ ret' = Called("__setattr__", <<"PPA_Price", p>>, Return(None))

Call_generate_summary_report ==
    /\ Constructed
    /\ \E r \in generate_summary_report(inputs) :
          ret' = Called("generate_summary_report", << >>, r)
    /\ UNCHANGED inputs

Call_generate_yearly_data ==
    /\ Constructed
    /\ ret' = Called("generate_yearly_data", << >>, Return(generate_yearly_data(inputs)))
    /\ UNCHANGED inputs

Call_generate_calculation_audit_log ==
    /\ Constructed
    /\ \E r \in generate_calculation_audit_log(inputs) :
          ret' = Called("generate_calculation_audit_log", << >>, r)
    /\ UNCHANGED inputs

Call_calc_Max_Debt ==
    /\ Constructed
    /\ \/ ret' = Called("calc_Max_Debt_by_DSCR", << >>, Return(calc_Max_Debt_by_DSCR(inputs)))
       \/ ret' = Called("calc_Max_Debt_by_Gearing", << >>, Return(calc_Max_Debt_by_Gearing(inputs)))
    /\ UNCHANGED inputs

\* variant: the sized debt is kept by resetting the gearing ratio of the inputs
Call_calc_Final_Debt_writing_inputs ==
    /\ Constructed
    /\ ret' = Called("calc_Final_Debt", << >>, Return(calc_Final_Debt(inputs)))
    /\ inputs' = [inputs EXCEPT !.Gearing_Ratio = Zero]

Call_calc_Final_Debt ==
    /\ Constructed
    /\ ret' = Called("calc_Final_Debt", << >>, Return(calc_Final_Debt(inputs)))
    /\ UNCHANGED inputs

Call_calc_Equity ==
    /\ Constructed
    /\ ret' = Called("calc_Equity", << >>, Return(calc_Equity(inputs)))
    /\ UNCHANGED inputs

Call_calc_Annual_Debt_Service ==
    /\ Constructed
    /\ ret' = Called("calc_Annual_Debt_Service", << >>,
                     Return(calc_Annual_Debt_Service(inputs)))
    /\ UNCHANGED inputs

Call_calc_CFADS_year_t ==
    /\ Constructed
    /\ \E year \in 1..inputs.Project_Lifetime :
          ret' = Called("calc_CFADS_year_t", <<year>>,
                       Return(calc_CFADS_year_t(inputs, year)))
    /\ UNCHANGED inputs

Call_calc_FCF_to_Equity_year_t ==
    /\ Constructed
    /\ \E year \in 1..inputs.Project_Lifetime :
          ret' = Called("calc_FCF_to_Equity_year_t", <<year>>,
                       Return(calc_FCF_to_Equity_year_t(inputs, year)))
    /\ UNCHANGED inputs

Call_calc_DSCR_year_t ==
    /\ Constructed
    /\ \E year \in 1..inputs.Project_Lifetime :
          ret' = Called("calc_DSCR_year_t", <<year>>,
                       Return(calc_DSCR_year_t(inputs, year)))
    /\ UNCHANGED inputs

Call_calc_Minimum_DSCR ==
    /\ Constructed
    /\ ret' = Called("calc_Minimum_DSCR", << >>, Return(calc_Minimum_DSCR(inputs)))
    /\ UNCHANGED inputs

Call_calc_Average_DSCR ==
    /\ Constructed
    /\ ret' = Called("calc_Average_DSCR", << >>, Return(calc_Average_DSCR(inputs)))
    /\ UNCHANGED inputs

Call_calc_Project_IRR ==
    /\ Constructed
    /\ \E r \in calc_Project_IRR(inputs) : ret' = Called("calc_Project_IRR", << >>, r)
    /\ UNCHANGED inputs

Call_calc_Equity_IRR ==
    /\ Constructed
    /\ \E r \in calc_Equity_IRR(inputs) : ret' = Called("calc_Equity_IRR", << >>, r)
    /\ UNCHANGED inputs

Call_calc_Equity_Payback_Period ==
    /\ Constructed
    /\ ret' = Called("calc_Equity_Payback_Period", << >>,
                     Return(calc_Equity_Payback_Period(inputs)))
    /\ UNCHANGED inputs

Call_calc_Project_Payback_Period ==
    /\ Constructed
    /\ ret' = Called("calc_Project_Payback_Period", << >>,
                     Return(calc_Project_Payback_Period(inputs)))
    /\ UNCHANGED inputs

\* [calc.calc_X_month_t(year, month) for month in range(1, 13)], the twelve
\* calls the monthly tests make for one year
monthly_values(self, quantity, year) ==
    [month \in Months |->
        CASE quantity = "Energy" -> calc_Energy_month_t(self, year, month)
          [] quantity = "Revenue" -> calc_Revenue_month_t(self, year, month)
          [] quantity = "OM" -> calc_OM_month_t(self, year, month)
          [] quantity = "CFADS" -> calc_CFADS_month_t(self, year, month)
          [] quantity = "FCF_to_Equity" -> calc_FCF_to_Equity_month_t(self, year, month)]

Quantities == {"Energy", "Revenue", "OM", "CFADS", "FCF_to_Equity"}

Call_calc_month_t ==
    /\ Constructed
    /\ \E quantity \in Quantities, year \in 1..inputs.Project_Lifetime :
          ret' = Called("calc_month_t", <<quantity, year>>,
                       Return(monthly_values(inputs, quantity, year)))
    /\ UNCHANGED inputs

Next ==
    \/ Construct
    \/ Assign_PPA_Price
    \/ Call_generate_summary_report
    \/ Call_generate_yearly_data
    \/ Call_generate_calculation_audit_log
    \/ Call_calc_Max_Debt
    \/ Call_calc_Final_Debt
    \/ Call_calc_Equity
    \/ Call_calc_Annual_Debt_Service
    \/ Call_calc_CFADS_year_t
    \/ Call_calc_FCF_to_Equity_year_t
    \/ Call_calc_DSCR_year_t
    \/ Call_calc_Minimum_DSCR
    \/ Call_calc_Average_DSCR
    \/ Call_calc_Project_IRR
    \/ Call_calc_Equity_IRR
    \/ Call_calc_Equity_Payback_Period
    \/ Call_calc_Project_Payback_Period
    \/ Call_calc_month_t

Spec == Init /\ [][Next]_vars

----------------------------------------------------------------------------
(* assess_project on its own.  The method reads nothing of the calculator:  *)
(* its result is a function of its three arguments, which are drawn here   *)
(* from values on, between and beside its thresholds.                      *)

ProjectIrrValues == {Q(5, 100), Q(6, 100), Q(7, 100), Q(8, 100), Q(10, 100)}
EquityIrrValues == {Q(8, 100), Q(9, 100), Q(10, 100), Q(12, 100), Q(15, 100)}
MinDscrValues == {One, Q(120, 100), Q(125, 100), Q(130, 100), I(2)}

\* the calculators assess_project is called on
AssessInputs ==
    {p \in ProjectInputs :
        /\ p.Debt_Tenor = 1
        /\ p.Project_Lifetime = 1
        /\ p.Tax_Rate = Zero
        /\ p.Gearing_Ratio = One
        /\ p.Degradation_Rate = Zero /\ p.PPA_Escalation = Zero /\ p.OM_Escalation = Zero}

InitAssess ==
    /\ inputs \in AssessInputs
    /\ ret = Called("__init__", << >>, Return(None))

Call_assess_project ==
    /\ Constructed
    /\ \E project_irr \in ProjectIrrValues, equity_irr \in EquityIrrValues,
          min_dscr \in MinDscrValues :
          ret' = Called("assess_project", <<project_irr, equity_irr, min_dscr>>,
                       Return(assess_project(project_irr, equity_irr, min_dscr)))
    /\ UNCHANGED inputs

NextAssess ==
    \/ Construct
    \/ Call_assess_project

SpecAssess == InitAssess /\ [][NextAssess]_vars

----------------------------------------------------------------------------
(* The reference project of the tests (the fixture default_inputs) and      *)
(* projects beside it, with the operations the tests call for year 1.      *)

ReferenceInputs ==
    [Capacity |-> I(50), P50_Year_0_Yield |-> I(96360),
     CapEx_per_MW |-> I(1000000), PPA_Price |-> I(70),
     OM_Cost_per_MW_year |-> I(15000),
     Degradation_Rate |-> Q(4, 1000), PPA_Escalation |-> Q(1, 100),
     OM_Escalation |-> Q(1, 100),
     Gearing_Ratio |-> Q(75, 100), Interest_Rate |-> Q(45, 1000),
     Debt_Tenor |-> 15, Target_DSCR |-> Q(130, 100), Project_Lifetime |-> 25,
     Tax_Rate |-> Q(25, 100), Discount_Rate |-> Q(8, 100)]

\* the reference project and its neighbours in capacity, CapEx, PPA price,
\* O&M cost and tax rate
ReferenceFamily ==
    {[ReferenceInputs EXCEPT !.Capacity = c, !.CapEx_per_MW = x, !.PPA_Price = p,
                             !.OM_Cost_per_MW_year = om, !.Tax_Rate = t] :
        c \in {I(25), I(50)}, x \in {I(800000), I(1000000)},
        p \in {I(50), I(70), I(90)}, om \in {I(12000), I(15000)},
        t \in {Zero, Q(25, 100)}}

FirstYear == 1

InitReference ==
    /\ inputs \in ReferenceFamily
    /\ ret = Called("__init__", << >>, Return(None))

Call_calc_Total_CapEx ==
    /\ Constructed
    /\ ret' = Called("calc_Total_CapEx", << >>, Return(calc_Total_CapEx(inputs)))
    /\ UNCHANGED inputs

Call_calc_year_1 ==
    /\ Constructed
    /\ \/ ret' = Called("calc_Energy_year_t", <<FirstYear>>,
                         Return(calc_Energy_year_t(inputs, FirstYear)))
       \/ ret' = Called("calc_Revenue_year_t", <<FirstYear>>,
                         Return(calc_Revenue_year_t(inputs, FirstYear)))
       \/ ret' = Called("calc_OM_year_t", <<FirstYear>>,
                         Return(calc_OM_year_t(inputs, FirstYear)))
       \/ ret' = Called("calc_EBITDA_year_t", <<FirstYear>>,
                         Return(calc_EBITDA_year_t(inputs, FirstYear)))
       \/ ret' = Called("calc_CFADS_year_t", <<FirstYear>>,
                         Return(calc_CFADS_year_t(inputs, FirstYear)))
    /\ UNCHANGED inputs

NextReference ==
    \/ Construct
    \/ Call_calc_Total_CapEx
    \/ Call_calc_year_1

SpecReference == InitReference /\ [][NextReference]_vars

----------------------------------------------------------------------------
(* Decimal arithmetic.  The cash flows of the reference project over its   *)
(* 25 years, and the iterates of irr_calc on them, have no exact fractions *)
(* within the integer range of the model.  For them a number is a decimal  *)
(* <<s, m, DecLimbs>>: the sign s in {-1, 0, 1} and the magnitude m, the   *)
(* digits of |x| * 10^20 in base 10^4, least significant first, without    *)
(* leading zeros.  Products and quotients are cut after the 20th decimal,  *)
(* below the precision of the floats the program computes in.              *)

DecBase == 10000

DecLimbs == 5

Top(S) == CHOOSE i \in S : \A j \in S : j <= i

\* a without its leading zeros
BNorm(a) ==
    CASE a = << >> -> a
      [] a[Len(a)] # 0 -> a
      [] \A i \in 1..Len(a) : a[i] = 0 -> << >>
      [] OTHER -> SubSeq(a, 1, Top({i \in 1..Len(a) : a[i] # 0}))

\* -1, 0, 1 as a < b, a = b, a > b
BCmp(a, b) ==
    IF Len(a) < Len(b) THEN -1
    ELSE IF Len(a) > Len(b) THEN 1
    ELSE IF a = b THEN 0
    ELSE IF \E i \in 1..Len(a) :
                /\ a[i] < b[i]
                /\ \A j \in (i + 1)..Len(a) : a[j] = b[j]
    THEN -1
    ELSE 1

Limb(a, i) == IF i <= Len(a) THEN a[i] ELSE 0

\* whether the digit sums s[1..i-1] carry into place i: a place that
\* overflows, and above it only places that a carry fills up
CarryInto(s, i) ==
    \E j \in 1..(i - 1) :
        /\ s[j] >= DecBase
        /\ \A k \in (j + 1)..(i - 1) : s[k] = DecBase - 1

\* the number whose digit sums are s, each below 2 * DecBase - 1
Carried(s) ==
    [i \in 1..Len(s) |-> (s[i] + IF CarryInto(s, i) THEN 1 ELSE 0) % DecBase]
        \o IF CarryInto(s, Len(s) + 1) THEN <<1>> ELSE << >>

BAdd(a, b) ==
    Carried(<< >> \o [i \in 1..(IF Len(a) > Len(b) THEN Len(a) ELSE Len(b)) |->
                          Limb(a, i) + Limb(b, i)])

\* whether the digit differences d[1..i-1] borrow from place i
BorrowFrom(d, i) ==
    \E j \in 1..(i - 1) :
        /\ d[j] < 0
        /\ \A k \in (j + 1)..(i - 1) : d[k] = 0

\* a - b for a >= b
BSub(a, b) ==
    CHOOSE difference \in
        {BNorm(<< >> \o [i \in 1..Len(d) |->
                             (d[i] - IF BorrowFrom(d, i) THEN 1 ELSE 0) % DecBase]) :
            d \in {<< >> \o [i \in 1..Len(a) |-> a[i] - Limb(b, i)]}} : TRUE

\* a * m for 0 <= m < DecBase: at each place the low digits of a[i] * m
\* and the high digits of a[i - 1] * m
BMulSmall(a, m) ==
    CHOOSE product \in
        {BNorm(Carried(s)) :
            s \in {<< >> \o [i \in 1..(Len(a) + 1) |->
                             (IF i <= Len(a) THEN (a[i] * m) % DecBase ELSE 0)
                                 + (IF i > 1 THEN (a[i - 1] * m) \div DecBase ELSE 0)]}} : TRUE

\* a * b[lo..hi]
RECURSIVE BMulRange(_, _, _, _)
BMulRange(a, b, lo, hi) ==
    IF lo = hi THEN BMulSmall(a, b[lo])
    ELSE CHOOSE product \in
             {BAdd(low, [i \in 1..((lo + hi) \div 2 - lo + 1) |-> 0] \o high) :
                 low \in {BMulRange(a, b, lo, (lo + hi) \div 2)},
                 high \in {BMulRange(a, b, (lo + hi) \div 2 + 1, hi)}} : TRUE

\* a * b, with leading zeros
BMul(a, b) ==
    IF a = << >> \/ b = << >> THEN << >> ELSE BMulRange(a, b, 1, Len(b))

\* the two leading digits of r over the leading digit of b
BEstimate(r, b) ==
    IF (Limb(r, Len(b) + 1) * DecBase + Limb(r, Len(b))) \div b[Len(b)] < DecBase
    THEN (Limb(r, Len(b) + 1) * DecBase + Limb(r, Len(b))) \div b[Len(b)]
    ELSE DecBase - 1

\* one step of the long division, for r < b * DecBase and b with a leading
\* digit of DecBase \div 2 at least: the quotient digit, which the estimate
\* exceeds by 2 at most, and the remainder
BDivStep(r, b) ==
    CHOOSE step \in
        {<<digit[1], BSub(r, digit[2])>> :
            digit \in {CHOOSE try \in {<<q, BMulSmall(b, q)>> :
                                          q \in {c \in (BEstimate(r, b) - 2)..BEstimate(r, b) :
                                                    c >= 0}} :
                           /\ BCmp(try[2], r) <= 0
                           /\ try[1] = DecBase - 1 \/ BCmp(BAdd(try[2], b), r) > 0}} : TRUE

\* the long division of a[lo..hi] by b from the most significant digit a[hi],
\* with the remainder r above it: <<the quotient digits, the remainder>>
RECURSIVE BDivRange(_, _, _, _, _)
BDivRange(a, b, lo, hi, r) ==
    IF lo = hi THEN CHOOSE one \in {<<<<s[1]>>, s[2]>> : s \in {BDivStep(BNorm(<<a[lo]>> \o r), b)}} : TRUE
    ELSE CHOOSE all \in
             {CHOOSE both \in
                  {<<low[1] \o high[1], low[2]>> :
                      low \in {BDivRange(a, b, lo, (lo + hi) \div 2, high[2])}} : TRUE :
                 high \in {BDivRange(a, b, (lo + hi) \div 2 + 1, hi, r)}} : TRUE

\* a \div b, with leading zeros, for b # 0 and a with or without leading
\* zeros; both are scaled first to bring the leading digit of b to
\* DecBase \div 2 at least, and the division starts below the leading digits
\* of a that are fewer than the digits of b
BDiv(a, b) ==
    IF BCmp(BNorm(a), b) < 0 THEN << >>
    ELSE CHOOSE quotient \in
             {BDivRange(an, bn, 1, Len(an) - Len(bn) + 1,
                        SubSeq(an, Len(an) - Len(bn) + 2, Len(an)))[1] :
                 an \in {BMulSmall(a, DecBase \div (b[Len(b)] + 1))},
                 bn \in {BMulSmall(b, DecBase \div (b[Len(b)] + 1))}} : TRUE

RECURSIVE BInt(_)
BInt(n) == IF n = 0 THEN << >> ELSE <<n % DecBase>> \o BInt(n \div DecBase)

Dec(s, m) == <<IF m = << >> THEN 0 ELSE s, m, DecLimbs>>

\* the decimal of a number given as a decimal or as a fraction n/d
ToDec(x) ==
    CASE Len(x) = 3 -> x
      [] Len(x) = 2 /\ x[2] = 1 ->
           Dec(IF x[1] < 0 THEN -1 ELSE 1,
               BNorm([i \in 1..DecLimbs |-> 0] \o BInt(Abs(x[1]))))
      [] OTHER ->
           Dec(IF x[1] < 0 THEN -1 ELSE 1,
               BNorm(BDiv([i \in 1..DecLimbs |-> 0] \o BInt(Abs(x[1])), BInt(x[2]))))

\* Each operation takes the values of its operands first and works on their
\* decimals a, b.

NegDec(a) == <<-a[1], a[2], a[3]>>

DecNeg(x) == CHOOSE result \in {NegDec(ToDec(u)) : u \in {x}} : TRUE

DecAbs(x) == CHOOSE result \in {<<Abs(a[1]), a[2], a[3]>> : a \in {ToDec(x)}} : TRUE

AddDec(a, b) ==
    CASE a[1] = 0 -> b
      [] b[1] = 0 -> a
      [] a[1] = b[1] -> Dec(a[1], BAdd(a[2], b[2]))
      [] a[1] = -b[1] /\ BCmp(a[2], b[2]) >= 0 -> Dec(a[1], BSub(a[2], b[2]))
      [] OTHER -> Dec(b[1], BSub(b[2], a[2]))

DecAdd(x, y) ==
    CHOOSE result \in {AddDec(ToDec(u), ToDec(v)) : u \in {x}, v \in {y}} : TRUE

DecSub(x, y) ==
    CHOOSE result \in {AddDec(ToDec(u), NegDec(ToDec(v))) : u \in {x}, v \in {y}} : TRUE

\* m without its DecLimbs least significant digits
BCut(m) == IF Len(m) <= DecLimbs THEN << >> ELSE SubSeq(m, DecLimbs + 1, Len(m))

MulDec(a, b) ==
    CHOOSE cut \in
        {Dec(a[1] * b[1], BCut(BNorm(product))) : product \in {BMul(a[2], b[2])}} : TRUE

DecMul(x, y) ==
    CHOOSE result \in {MulDec(ToDec(u), ToDec(v)) : u \in {x}, v \in {y}} : TRUE

DivDec(a, b) ==
    CHOOSE cut \in
        {Dec(a[1] * b[1], BNorm(quotient)) :
            quotient \in {BDiv([i \in 1..DecLimbs |-> 0] \o a[2], b[2])}} : TRUE

\* x / y for y # 0
DecDiv(x, y) ==
    CHOOSE result \in {DivDec(ToDec(u), ToDec(v)) : u \in {x}, v \in {y}} : TRUE

DecLt(x, y) == DecSub(x, y)[1] < 0
DecLe(x, y) == DecSub(x, y)[1] <= 0

DecIsZero(x) == ToDec(x)[1] = 0

\* x ** k, by squaring
RECURSIVE DecPow(_, _)
DecPow(x, k) ==
    CASE k >= 2 ->
           CHOOSE result \in
               {IF k % 2 = 0 THEN DecMul(h, h) ELSE DecMul(DecMul(h, h), x) :
                   h \in {DecPow(x, k \div 2)}} : TRUE
      [] k = 1 -> ToDec(x)
      [] k = 0 -> ToDec(One)

\* Python's min(a, b): b only when b < a
DecMin2(a, b) == IF DecLt(b, a) THEN b ELSE a

\* sum of f[i] for i in lo..hi; a sum of decimals is exact, so that the order
\* in which the loops accumulate does not show
RECURSIVE DecSumRange(_, _, _)
DecSumRange(f, lo, hi) ==
    IF hi < lo THEN ToDec(Zero)
    ELSE IF hi = lo THEN ToDec(f[lo])
    ELSE CHOOSE result \in
             {DecAdd(low, high) :
                 low \in {DecSumRange(f, lo, (lo + hi) \div 2)},
                 high \in {DecSumRange(f, (lo + hi) \div 2 + 1, hi)}} : TRUE

\* the terms are computed first, then added up
DecSumTo(f, lo, hi) ==
    CHOOSE total \in {DecSumRange(terms, lo, hi) : terms \in {<< >> \o f}} : TRUE

----------------------------------------------------------------------------
(* The calculation chain on decimals: the financial functions and the      *)
(* methods of SolarFinanceCalculator that the end-to-end tests of the      *)
(* reference project go through, each as above with the arithmetic of      *)
(* decimals in the place of the arithmetic of fractions.  irr_calc runs    *)
(* its loop pass by pass.                                                  *)

\* range(100)
IrrMaxIter == 100

\* (1 + rate) ** nper, which the code computes twice, is computed once
pmt_calc_dec(rate, nper, pv, fv) ==
    IF DecIsZero(rate)
    THEN DecNeg(DecDiv(DecAdd(pv, fv), I(nper)))
    ELSE CHOOSE payment \in
             {DecDiv(DecMul(DecNeg(rate), DecAdd(DecMul(pv, growth), fv)),
                     DecSub(growth, One)) :
                 growth \in {DecPow(DecAdd(One, rate), nper)}} : TRUE

calc_Total_CapEx_dec(self) == DecMul(self.Capacity, self.CapEx_per_MW)

calc_Energy_year_t_dec(self, year) ==
    DecMul(self.P50_Year_0_Yield, DecPow(DecSub(One, self.Degradation_Rate), year - 1))

calc_Revenue_year_t_dec(self, year) ==
    CHOOSE result \in
        {DecMul(DecMul(energy, self.PPA_Price), DecPow(DecAdd(One, self.PPA_Escalation), year - 1)) :
            energy \in {calc_Energy_year_t_dec(self, year)}} : TRUE

calc_OM_year_t_dec(self, year) ==
    DecMul(DecMul(self.Capacity, self.OM_Cost_per_MW_year),
        DecPow(DecAdd(One, self.OM_Escalation), year - 1))

calc_EBITDA_year_t_dec(self, year) ==
    CHOOSE result \in
        {DecSub(revenue, om) :
            revenue \in {calc_Revenue_year_t_dec(self, year)},
            om \in {calc_OM_year_t_dec(self, year)}} : TRUE

calc_CFADS_year_t_dec(self, year) ==
    CHOOSE result \in
        {DecMul(ebitda, DecSub(One, self.Tax_Rate)) :
            ebitda \in {calc_EBITDA_year_t_dec(self, year)}} : TRUE

calc_PV_of_CFADS_dec(self) ==
    DecSumTo([year \in 1..self.Debt_Tenor |->
              CHOOSE term \in
                  {DecDiv(cfads, discount_factor) :
                      cfads \in {calc_CFADS_year_t_dec(self, year)},
                      discount_factor \in {DecPow(DecAdd(One, self.Interest_Rate), year)}} : TRUE],
          1, self.Debt_Tenor)

calc_Max_Debt_by_DSCR_dec(self) ==
    CHOOSE result \in
        {DecDiv(pv_cfads, self.Target_DSCR) :
            pv_cfads \in {calc_PV_of_CFADS_dec(self)}} : TRUE

calc_Max_Debt_by_Gearing_dec(self) ==
    CHOOSE result \in
        {DecMul(total_capex, self.Gearing_Ratio) :
            total_capex \in {calc_Total_CapEx_dec(self)}} : TRUE

calc_Final_Debt_dec(self) ==
    CHOOSE result \in
        {DecMin2(max_debt_dscr, max_debt_gearing) :
            max_debt_dscr \in {calc_Max_Debt_by_DSCR_dec(self)},
            max_debt_gearing \in {calc_Max_Debt_by_Gearing_dec(self)}} : TRUE

calc_Equity_dec(self) ==
    CHOOSE result \in
        {DecSub(total_capex, final_debt) :
            total_capex \in {calc_Total_CapEx_dec(self)},
            final_debt \in {calc_Final_Debt_dec(self)}} : TRUE

calc_Annual_Debt_Service_dec(self) ==
    CHOOSE result \in
        {DecNeg(pmt_calc_dec(self.Interest_Rate, self.Debt_Tenor, final_debt, Zero)) :
            final_debt \in {calc_Final_Debt_dec(self)}} : TRUE

calc_FCF_to_Equity_year_t_dec(self, year) ==
    CHOOSE result \in
        {IF year <= self.Debt_Tenor
         THEN CHOOSE difference \in
                  {DecSub(cfads, annual_ds) :
                      annual_ds \in {calc_Annual_Debt_Service_dec(self)}} : TRUE
         ELSE cfads :
            cfads \in {calc_CFADS_year_t_dec(self, year)}} : TRUE

calc_DSCR_year_t_dec(self, year) ==
    IF year > self.Debt_Tenor
    THEN None
    ELSE CHOOSE result \in
             {IF DecIsZero(annual_ds) THEN None ELSE DecDiv(cfads, annual_ds) :
                 cfads \in {calc_CFADS_year_t_dec(self, year)},
                 annual_ds \in {calc_Annual_Debt_Service_dec(self)}} : TRUE

\* values[i] of the code is values[i + 1] here
npv_at_rate_dec(values, rate) ==
    DecSumTo([k \in 1..Len(values) |-> DecDiv(values[k], DecPow(DecAdd(One, rate), k - 1))],
          1, Len(values))

npv_derivative_dec(values, rate) ==
    DecSumTo([k \in 1..Len(values) |->
              DecDiv(DecMul(I(-(k - 1)), values[k]), DecPow(DecAdd(One, rate), k))],
          1, Len(values))

\* one pass of the loop of irr_calc at `rate`: <<TRUE, the outcome of the
\* call>> when the pass ends it, <<FALSE, the rate of the next pass>> otherwise;
\* val / (1 + rate) ** i raises ZeroDivisionError when 1 + rate = 0 and i >= 1
irr_pass(values, rate) ==
    IF DecIsZero(DecAdd(One, rate)) /\ Len(values) >= 2
    THEN <<TRUE, Raise("ZeroDivisionError")>>
    ELSE CHOOSE outcome \in
             {IF DecLt(DecAbs(npv_val), Q(1, NpvTolDen))
              THEN <<TRUE, Return(rate)>>
              ELSE CHOOSE after \in
                       {IF DecLt(DecAbs(npv_deriv),
                                 DecMul(Q(1, DerivTolDenA), Q(1, DerivTolDenB)))
                        THEN <<TRUE, Return(rate)>>
                        ELSE <<FALSE, DecSub(rate, DecDiv(npv_val, npv_deriv))>> :
                           npv_deriv \in {npv_derivative_dec(values, rate)}} : TRUE :
                 npv_val \in {npv_at_rate_dec(values, rate)}} : TRUE

\* irr_calc from the pass that starts at `rate`, with `passes` passes of the
\* loop left
RECURSIVE irr_loop(_, _, _)
irr_loop(values, rate, passes) ==
    IF passes = 0
    THEN Return(rate)
    ELSE CHOOSE result \in
             {IF pass[1] THEN pass[2] ELSE irr_loop(values, pass[2], passes - 1) :
                 pass \in {irr_pass(values, rate)}} : TRUE

\* The outcomes of irr_calc(values, guess)
irr_calc_dec(values, guess) ==
    {irr_loop(values, rate, IrrMaxIter) : rate \in {ToDec(guess)}}

ProjectCashFlows_dec(self) ==
    <<DecNeg(calc_Total_CapEx_dec(self))>> \o
    [year \in 1..self.Project_Lifetime |-> calc_CFADS_year_t_dec(self, year)]

\* variant: the cash flows to equity without the debt
EquityCashFlows_dec_unlevered(self) == ProjectCashFlows_dec(self)

EquityCashFlows_dec(self) ==
    <<DecNeg(calc_Equity_dec(self))>> \o
    [year \in 1..self.Project_Lifetime |-> calc_FCF_to_Equity_year_t_dec(self, year)]

\* the list cash_flows is built first, then passed to irr_calc_dec
calc_Project_IRR_dec(self) ==
    UNION {irr_calc_dec(cash_flows, Guess) : cash_flows \in {ProjectCashFlows_dec(self)}}

calc_Equity_IRR_dec(self) ==
    UNION {irr_calc_dec(cash_flows, Guess) : cash_flows \in {EquityCashFlows_dec(self)}}

\* dscr_values_dec of calc_Minimum_DSCR_dec / calc_Average_DSCR_dec
dscr_values_dec(self) ==
    SelectSeq([year \in 1..self.Debt_Tenor |-> calc_DSCR_year_t_dec(self, year)],
              LAMBDA d : d # None)

\* Python's min over s[lo..hi]: the first of the least elements
RECURSIVE MinSeq_dec(_, _, _)
MinSeq_dec(s, lo, hi) ==
    IF lo = hi THEN s[lo]
    ELSE CHOOSE least \in
             {DecMin2(low, high) :
                 low \in {MinSeq_dec(s, lo, (lo + hi) \div 2)},
                 high \in {MinSeq_dec(s, (lo + hi) \div 2 + 1, hi)}} : TRUE

calc_Minimum_DSCR_dec(self) ==
    IF dscr_values_dec(self) # << >> THEN MinSeq_dec(dscr_values_dec(self), 1, Len(dscr_values_dec(self))) ELSE None

calc_Average_DSCR_dec(self) ==
    IF dscr_values_dec(self) # << >>
    THEN DecDiv(DecSumTo(dscr_values_dec(self), 1, Len(dscr_values_dec(self))),
             I(Len(dscr_values_dec(self))))
    ELSE None

----------------------------------------------------------------------------
(* The reference project end to end: the operations that run over the 25   *)
(* years of the project and the 15 years of its debt.                      *)

\* the reference project and the project at the higher PPA price of the tests
EndToEndFamily == {[ReferenceInputs EXCEPT !.PPA_Price = p] : p \in {I(70), I(90)}}

\* the attributes of the project as __init__ stores them, the numbers as
\* decimals
DecInputs(self) ==
    [self EXCEPT !.Capacity = ToDec(@), !.P50_Year_0_Yield = ToDec(@),
                 !.CapEx_per_MW = ToDec(@), !.PPA_Price = ToDec(@),
                 !.OM_Cost_per_MW_year = ToDec(@), !.Degradation_Rate = ToDec(@),
                 !.PPA_Escalation = ToDec(@), !.OM_Escalation = ToDec(@),
                 !.Gearing_Ratio = ToDec(@), !.Interest_Rate = ToDec(@),
                 !.Target_DSCR = ToDec(@), !.Tax_Rate = ToDec(@),
                 !.Discount_Rate = ToDec(@)]

InitEndToEnd ==
    /\ inputs \in EndToEndFamily
    /\ ret = Called("__init__", << >>, Return(None))

Call_calc_IRR_end_to_end ==
    /\ Constructed
    /\ \E self \in {DecInputs(inputs)} :
          \/ \E r \in calc_Project_IRR_dec(self) :
                 ret' = Called("calc_Project_IRR", << >>, r)
          \/ \E r \in calc_Equity_IRR_dec(self) :
                 ret' = Called("calc_Equity_IRR", << >>, r)
    /\ UNCHANGED inputs

Call_calc_DSCR_end_to_end ==
    /\ Constructed
    /\ \E self \in {DecInputs(inputs)} :
          \/ ret' = Called("calc_Minimum_DSCR", << >>,
                            Return(calc_Minimum_DSCR_dec(self)))
          \/ ret' = Called("calc_Average_DSCR", << >>,
                            Return(calc_Average_DSCR_dec(self)))
    /\ UNCHANGED inputs

Call_calc_year_t_end_to_end ==
    /\ Constructed
    /\ \E self \in {DecInputs(inputs)}, year \in 1..inputs.Project_Lifetime :
          \/ ret' = Called("calc_CFADS_year_t", <<year>>,
                            Return(calc_CFADS_year_t_dec(self, year)))
          \/ ret' = Called("calc_FCF_to_Equity_year_t", <<year>>,
                            Return(calc_FCF_to_Equity_year_t_dec(self, year)))
    /\ UNCHANGED inputs

NextEndToEnd ==
    \/ Construct
    \/ Call_calc_IRR_end_to_end
    \/ Call_calc_DSCR_end_to_end
    \/ Call_calc_year_t_end_to_end

SpecEndToEnd == InitEndToEnd /\ [][NextEndToEnd]_vars

----------------------------------------------------------------------------
(* Debt sizing *)

\* C1: for every valid ProjectInputs calc_Final_Debt() + calc_Equity() equals
\* calc_Total_CapEx(), and in the report of generate_summary_report
\* financing_structure.final_debt + financing_structure.equity equals
\* project_summary.total_capex.
C1_DebtPlusEquityIsCapEx ==
    /\ ret.op = "calc_Equity" =>
          Add(calc_Final_Debt(inputs), ret.value) = calc_Total_CapEx(inputs)
    /\ (ret.op = "generate_summary_report" /\ ret.raised = "none") =>
          Add(ret.value.financing_structure.final_debt,
              ret.value.financing_structure.equity)
             = ret.value.project_summary.total_capex

\* calc_Equity has returned for a project financed by both debt and equity,
\* the debt being the DSCR cap, below the gearing cap
C1_Witness ==
    /\ ret.op = "calc_Equity"
    /\ Lt(Zero, ret.value)
    /\ Lt(Zero, calc_Final_Debt(inputs))
    /\ Lt(calc_Max_Debt_by_DSCR(inputs), calc_Max_Debt_by_Gearing(inputs))

\* C2: calc_Final_Debt() is the smaller of the two caps, with
\* Max_Debt_by_DSCR = (sum over t = 1..Debt_Tenor of
\* CFADS(t) / (1 + Interest_Rate)^t) / Target_DSCR and
\* Max_Debt_by_Gearing = Total_CapEx * Gearing_Ratio.
C2_FinalDebtIsMinOfCaps ==
    ret.op = "calc_Final_Debt" =>
        LET pv == SumTo([t \in 1..inputs.Debt_Tenor |->
                            Div(calc_CFADS_year_t(inputs, t),
                                Pow(Add(One, inputs.Interest_Rate), t))],
                        1, inputs.Debt_Tenor)
            by_dscr == Div(pv, inputs.Target_DSCR)
            by_gearing == Mul(calc_Total_CapEx(inputs), inputs.Gearing_Ratio)
        IN  /\ Le(ret.value, by_dscr)
            /\ Le(ret.value, by_gearing)
            /\ ret.value \in {by_dscr, by_gearing}

\* calc_Final_Debt has returned a positive debt set by the DSCR cap, which is
\* strictly below the gearing cap
C2_Witness ==
    /\ ret.op = "calc_Final_Debt"
    /\ Lt(Zero, ret.value)
    /\ Lt(ret.value, calc_Max_Debt_by_Gearing(inputs))

\* C3 as stated: the binding constraint reported by generate_summary_report
\* and by generate_calculation_audit_log is "DSCR" whenever
\* maxDebtByDscr <= maxDebtByGearing, equal caps included, and "Gearing" only
\* when maxDebtByGearing < maxDebtByDscr.
C3_TiesAreDSCR ==
    /\ (ret.op = "generate_summary_report" /\ ret.raised = "none") =>
          LET fs == ret.value.financing_structure
          IN  fs.binding_constraint
                 = (IF Le(fs.max_debt_by_dscr, fs.max_debt_by_gearing)
                    THEN "DSCR" ELSE "Gearing")
    /\ (ret.op = "generate_calculation_audit_log" /\ ret.raised = "none") =>
          LET ds == ret.value.binding_constraint.debt_sizing
          IN  ds.constraint
                 = (IF Le(ds.max_by_dscr, ds.max_by_gearing)
                    THEN "DSCR" ELSE "Gearing")

\* C3: the binding constraint reported by generate_summary_report and by
\* generate_calculation_audit_log is "DSCR" exactly when
\* maxDebtByDscr < maxDebtByGearing; it is "Gearing" otherwise, in particular
\* when the two caps are equal.
C3_BindingConstraint ==
    /\ (ret.op = "generate_summary_report" /\ ret.raised = "none") =>
          LET fs == ret.value.financing_structure
          IN  fs.binding_constraint
                 = (IF Lt(fs.max_debt_by_dscr, fs.max_debt_by_gearing)
                    THEN "DSCR" ELSE "Gearing")
    /\ (ret.op = "generate_calculation_audit_log" /\ ret.raised = "none") =>
          LET ds == ret.value.binding_constraint.debt_sizing
          IN  ds.constraint
                 = (IF Lt(ds.max_by_dscr, ds.max_by_gearing)
                    THEN "DSCR" ELSE "Gearing")

\* generate_summary_report has returned for a project whose two debt caps
\* are equal and positive
C3_Witness ==
    /\ ret.op = "generate_summary_report"
    /\ ret.raised = "none"
    /\ ret.value.financing_structure.max_debt_by_dscr
          = ret.value.financing_structure.max_debt_by_gearing
    /\ Lt(Zero, ret.value.financing_structure.final_debt)
    /\ ret.value.financing_structure.binding_constraint = "Gearing"

----------------------------------------------------------------------------
(* Debt service coverage *)

\* C4 as stated: for every valid ProjectInputs, Gearing_Ratio = 0 included,
\* and every year t in 1..Project_Lifetime, calc_DSCR_year_t(t) is non-null
\* if and only if t <= Debt_Tenor.
C4_DSCRDefinedWithinTenor ==
    ret.op = "calc_DSCR_year_t" =>
        (ret.value # None <=> ret.args[1] <= inputs.Debt_Tenor)

\* C4: for every year t in 1..Project_Lifetime, calc_DSCR_year_t(t) is
\* non-null if and only if t <= Debt_Tenor and the final debt is not zero;
\* with no debt (Gearing_Ratio = 0) it is null in every year.
C4_DSCRDefinedWithinTenorWithDebt ==
    ret.op = "calc_DSCR_year_t" =>
        (ret.value # None <=>
            /\ ret.args[1] <= inputs.Debt_Tenor
            /\ ~IsZero(calc_Final_Debt(inputs)))

\* calc_DSCR_year_t has returned null for a year inside the tenor of a project
\* without debt, and the project has a year beyond the tenor
C4_Witness ==
    /\ ret.op = "calc_DSCR_year_t"
    /\ ret.args[1] <= inputs.Debt_Tenor
    /\ inputs.Debt_Tenor < inputs.Project_Lifetime
    /\ inputs.Gearing_Ratio = Zero
    /\ ret.value = None

----------------------------------------------------------------------------
(* Monthly disaggregation *)

\* C5: for every year t in 1..Project_Lifetime and every quantity among
\* energy, revenue, O&M cost, CFADS and FCF to equity, the twelve monthly
\* values of year t sum to the yearly value.
C5_MonthlySumsToYearly ==
    ret.op = "calc_month_t" =>
        LET quantity == ret.args[1]
            year == ret.args[2]
            yearly ==
                CASE quantity = "Energy" -> calc_Energy_year_t(inputs, year)
                  [] quantity = "Revenue" -> calc_Revenue_year_t(inputs, year)
                  [] quantity = "OM" -> calc_OM_year_t(inputs, year)
                  [] quantity = "CFADS" -> calc_CFADS_year_t(inputs, year)
                  [] quantity = "FCF_to_Equity" ->
                        calc_FCF_to_Equity_year_t(inputs, year)
        IN  /\ Len(ret.value) = MonthsPerYear
            /\ SumTo(ret.value, 1, MonthsPerYear) = yearly

\* the twelve monthly FCF values of a year with debt service have been
\* computed, and they are not zero
C5_Witness ==
    /\ ret.op = "calc_month_t"
    /\ ret.args[1] = "FCF_to_Equity"
    /\ ret.args[2] <= inputs.Debt_Tenor
    /\ ~IsZero(calc_Annual_Debt_Service(inputs))
    /\ ~IsZero(ret.value[1])

----------------------------------------------------------------------------
(* All-equity financing *)

\* C6: with Gearing_Ratio = 0 and CFADS non-negative over the tenor,
\* calc_Equity() equals calc_Total_CapEx(), calc_Annual_Debt_Service() is 0
\* and calc_FCF_to_Equity_year_t(t) equals calc_CFADS_year_t(t) for every
\* year t in 1..Project_Lifetime.
C6_ZeroGearingIsAllEquity ==
    (/\ inputs.Gearing_Ratio = Zero
     /\ \A t \in 1..inputs.Debt_Tenor : Le(Zero, calc_CFADS_year_t(inputs, t))) =>
        /\ ret.op = "calc_Equity" => ret.value = calc_Total_CapEx(inputs)
        /\ ret.op = "calc_Annual_Debt_Service" => ret.value = Zero
        /\ ret.op = "calc_FCF_to_Equity_year_t" =>
              ret.value = calc_CFADS_year_t(inputs, ret.args[1])

\* calc_FCF_to_Equity_year_t has returned for a year inside the tenor of a
\* project with Gearing_Ratio = 0 and positive CFADS over the tenor
C6_Witness ==
    /\ inputs.Gearing_Ratio = Zero
    /\ \A t \in 1..inputs.Debt_Tenor : Lt(Zero, calc_CFADS_year_t(inputs, t))
    /\ ret.op = "calc_FCF_to_Equity_year_t"
    /\ ret.args[1] <= inputs.Debt_Tenor
    /\ Lt(Zero, ret.value)

----------------------------------------------------------------------------
(* Error handling *)

\* C7: generate_summary_report returns a report, raising no exception, for
\* every input of the valid domains, the projects with zero annual debt
\* service and an empty DSCR set (Gearing_Ratio = 0) included.
C7_SummaryReportNeverRaises ==
    ret.op = "generate_summary_report" => ret.raised = "none"

\* C8: the result of the IRR root-finder tells a return after
\* |NPV(rate)| < 1e-6 from a stop on |derivative| < 1e-10: a project IRR
\* returned as converged is never the value returned for a project whose
\* iteration stopped on the derivative.
C8_IRRResultTellsConvergence ==
    (/\ ret.op = "calc_Project_IRR"
     /\ ret.raised = "none"
     /\ irr_exit(ProjectCashFlows(inputs), Guess) = "converged") =>
        \A other \in ProjectInputs :
            irr_exit(ProjectCashFlows(other), Guess) = "break" =>
                \A r \in calc_Project_IRR(other) : r.value # ret.value

----------------------------------------------------------------------------
(* Equity payback *)

\* C9: calc_Equity_Payback_Period returns null if and only if the cumulative
\* FCF to equity, the running sum of FCF(1..t) from 0, is negative at every
\* year t in 1..Project_Lifetime.
C9_EquityPaybackNullIffNeverNonNegative ==
    ret.op = "calc_Equity_Payback_Period" =>
        LET fcf == [y \in 1..inputs.Project_Lifetime |->
                       calc_FCF_to_Equity_year_t(inputs, y)]
        IN  ret.value = None <=>
                \A t \in 1..inputs.Project_Lifetime : Lt(SumTo(fcf, 1, t), Zero)

\* C10: when FCF(1) >= 0, so that the cumulative FCF to equity is
\* non-negative at year 1, calc_Equity_Payback_Period returns the value of a
\* crossing at year 1, a value in [0, 1], not a later year.
C10_EquityPaybackAtYearOne ==
    (/\ ret.op = "calc_Equity_Payback_Period"
     /\ Le(Zero, calc_FCF_to_Equity_year_t(inputs, 1))) =>
        /\ ret.value # None
        /\ Le(Zero, ret.value)
        /\ Le(ret.value, One)

----------------------------------------------------------------------------
(* Project payback *)

\* C11: calc_Project_Payback_Period returns null if and only if the
\* cumulative CFADS over the years 1..Project_Lifetime never reaches
\* Total_CapEx; otherwise it returns
\* y - 1 + (Total_CapEx - cumulative CFADS through y - 1) / CFADS(y), y being
\* the first year in which the cumulative CFADS is >= Total_CapEx.
C11_ProjectPaybackNullIffNeverRecovered ==
    ret.op = "calc_Project_Payback_Period" =>
        LET cfads == [t \in 1..inputs.Project_Lifetime |-> calc_CFADS_year_t(inputs, t)]
            capex == calc_Total_CapEx(inputs)
            reached == {t \in 1..inputs.Project_Lifetime : Le(capex, SumTo(cfads, 1, t))}
        IN  /\ ret.value = None <=> reached = {}
            /\ reached # {} =>
                  LET y == CHOOSE t \in reached : \A u \in reached : t <= u
                  IN  /\ ~IsZero(cfads[y])
                      /\ ret.value = Add(I(y - 1),
                                         Div(Sub(capex, SumTo(cfads, 1, y - 1)), cfads[y]))

\* calc_Project_Payback_Period has returned a payback inside the second year:
\* CapEx is not recovered at year 1 and is recovered at year 2
C11_Witness ==
    /\ ret.op = "calc_Project_Payback_Period"
    /\ ret.value # None
    /\ Lt(One, ret.value)
    /\ Lt(ret.value, I(2))
    /\ Lt(calc_CFADS_year_t(inputs, 1), calc_Total_CapEx(inputs))

----------------------------------------------------------------------------
(* Assessment *)

\* C12: assess_project grades the project IRR (good >= 0.08, marginal >=
\* 0.06, else poor), the equity IRR (good >= 0.12, marginal >= 0.09, else
\* poor) and the minimum DSCR (good >= 1.30, marginal >= 1.20, else poor);
\* the overall verdict is RECOMMEND exactly when the three are good, DO NOT
\* PROCEED exactly when at least one is poor, and REVIEW in every other case.
C12_AssessmentGradesAndVerdict ==
    ret.op = "assess_project" =>
        LET grade(x, good, marginal) ==
                IF Le(good, x) THEN "GOOD"
                ELSE IF Le(marginal, x) THEN "MARGINAL" ELSE "POOR"
            g == <<grade(ret.args[1], Q(8, 100), Q(6, 100)),
                   grade(ret.args[2], Q(12, 100), Q(9, 100)),
                   grade(ret.args[3], Q(130, 100), Q(120, 100))>>
            text == <<ret.value.project_irr, ret.value.equity_irr, ret.value.dscr>>
            verdict ==
                IF \A k \in 1..3 : g[k] = "GOOD" THEN "RECOMMEND"
                ELSE IF \E k \in 1..3 : g[k] = "POOR" THEN "DO NOT PROCEED"
                ELSE "REVIEW"
            texts ==
                <<[GOOD |-> "GOOD - Exceeds 8% threshold",
                   MARGINAL |-> "MARGINAL - Between 6-8%",
                   POOR |-> "POOR - Below 6%"],
                  [GOOD |-> "GOOD - Exceeds 12% threshold",
                   MARGINAL |-> "MARGINAL - Between 9-12%",
                   POOR |-> "POOR - Below 9%"],
                  [GOOD |-> "GOOD - Exceeds 1.30x threshold",
                   MARGINAL |-> "MARGINAL - Between 1.20-1.30x",
                   POOR |-> "POOR - Below 1.20x"]>>
        IN  /\ \A k \in 1..3 : text[k] = texts[k][g[k]]
            /\ verdict = "RECOMMEND" <=>
                  ret.value.overall = "RECOMMEND - Proceed to detailed financing"
            /\ verdict = "DO NOT PROCEED" <=>
                  ret.value.overall = "DO NOT PROCEED - Economics not viable"
            /\ verdict = "REVIEW" <=>
                  ret.value.overall = "REVIEW - May be viable with optimization"

\* assess_project has returned REVIEW for a project IRR exactly on the good
\* threshold, an equity IRR exactly on the marginal threshold and a good DSCR
C12_Witness ==
    /\ ret.op = "assess_project"
    /\ ret.args = <<Q(8, 100), Q(9, 100), Q(130, 100)>>
    /\ ret.value.overall = "REVIEW - May be viable with optimization"

----------------------------------------------------------------------------
(* Minimum and average DSCR *)

\* C13: calc_Minimum_DSCR and calc_Average_DSCR are the minimum and the
\* arithmetic mean of the non-null calc_DSCR_year_t(t), t in 1..Debt_Tenor;
\* both are null when Debt_Tenor is 0 or every such DSCR is null.
C13_MinAndAverageOfNonNullDSCR ==
    LET dscr == [t \in 1..inputs.Debt_Tenor |-> calc_DSCR_year_t(inputs, t)]
        defined == {t \in 1..inputs.Debt_Tenor : dscr[t] # None}
        total == SumTo([t \in 1..inputs.Debt_Tenor |->
                           IF t \in defined THEN dscr[t] ELSE Zero],
                       1, inputs.Debt_Tenor)
        no_tenor == [inputs EXCEPT !.Debt_Tenor = 0]
    IN  /\ ret.op = "calc_Minimum_DSCR" =>
              /\ defined = {} => ret.value = None
              /\ defined # {} =>
                    /\ \E t \in defined : ret.value = dscr[t]
                    /\ \A t \in defined : Le(ret.value, dscr[t])
              /\ calc_Minimum_DSCR(no_tenor) = None
        /\ ret.op = "calc_Average_DSCR" =>
              /\ defined = {} => ret.value = None
              /\ defined # {} => ret.value = Div(total, I(Cardinality(defined)))
              /\ calc_Average_DSCR(no_tenor) = None

\* calc_Average_DSCR has returned the mean of two different DSCR values, the
\* smaller one being that of the second year
C13_Witness ==
    /\ ret.op = "calc_Average_DSCR"
    /\ ret.value # None
    /\ inputs.Debt_Tenor = 2
    /\ Lt(calc_DSCR_year_t(inputs, 2), ret.value)
    /\ Lt(ret.value, calc_DSCR_year_t(inputs, 1))

----------------------------------------------------------------------------
(* Reference project *)

\* C14: for the reference inputs (capacity 50, yield 96,360, CapEx/MW
\* 1,000,000, PPA price 70, O&M/MW-yr 15,000, degradation 0.004, escalations
\* 0.01, tax 0.25) total CapEx is 50,000,000, year-1 energy 96,360, year-1
\* revenue 6,745,200, year-1 O&M 750,000, year-1 EBITDA 5,995,200 and year-1
\* CFADS 4,496,400.
C14_ReferenceFirstYear ==
    (inputs = ReferenceInputs /\ ret.op # "__init__") =>
        ret.value =
            CASE ret.op = "calc_Total_CapEx" -> I(50000000)
              [] ret.op = "calc_Energy_year_t" -> I(96360)
              [] ret.op = "calc_Revenue_year_t" -> I(6745200)
              [] ret.op = "calc_OM_year_t" -> I(750000)
              [] ret.op = "calc_EBITDA_year_t" -> I(5995200)
              [] ret.op = "calc_CFADS_year_t" -> I(4496400)

\* calc_CFADS_year_t(1) has returned for the reference inputs, with a value
\* below the EBITDA of the year
C14_Witness ==
    /\ inputs = ReferenceInputs
    /\ ret.op = "calc_CFADS_year_t"
    /\ ret.args = <<1>>
    /\ Lt(ret.value, calc_EBITDA_year_t(inputs, 1))

\* C15: for the reference inputs (gearing 0.75, interest 0.045, tenor 15,
\* target DSCR 1.30, lifetime 25, discount 0.08) the project IRR lies in
\* [0.05, 0.20], the equity IRR is strictly greater than the project IRR,
\* and the minimum DSCR is strictly greater than 1.0.
C15_ReferenceEndToEnd ==
    inputs = ReferenceInputs =>
        /\ ret.op = "calc_Project_IRR" =>
              /\ ret.raised = "none"
              /\ DecLe(Q(5, 100), ret.value)
              /\ DecLe(ret.value, Q(20, 100))
        /\ ret.op = "calc_Equity_IRR" =>
              /\ ret.raised = "none"
              /\ \A p \in calc_Project_IRR_dec(DecInputs(inputs)) :
                    p.raised = "none" /\ DecLt(p.value, ret.value)
        /\ ret.op = "calc_Minimum_DSCR" =>
              ret.value # None /\ DecLt(One, ret.value)

\* calc_Equity_IRR has returned for the reference inputs a rate between 12%
\* and 13%, from cash flows that carry the debt service of the 15 years
C15_Witness ==
    /\ inputs = ReferenceInputs
    /\ ret.op = "calc_Equity_IRR"
    /\ ret.raised = "none"
    /\ DecLt(Q(12, 100), ret.value)
    /\ DecLt(ret.value, Q(13, 100))
    /\ DecLt(Zero, calc_Annual_Debt_Service_dec(DecInputs(inputs)))

----------------------------------------------------------------------------
(* Sensitivity to the PPA price *)

\* C16: of two valid ProjectInputs that differ only in PPA_Price, the one
\* with the higher PPA_Price has the strictly higher calc_Project_IRR().
\* The pairs compared are those for which irr_calc leaves its loop in the
\* first pass on both sides, where the model computes the returned rate.
C16_HigherPriceHigherProjectIRR ==
    (/\ ret.op = "calc_Project_IRR"
     /\ ret.raised = "none"
     /\ irr_exit(ProjectCashFlows(inputs), Guess) \in {"converged", "break"}) =>
        \A p \in PriceSet :
            LET other == [inputs EXCEPT !.PPA_Price = p]
            IN  (/\ Lt(inputs.PPA_Price, p)
                 /\ irr_exit(ProjectCashFlows(other), Guess) \in {"converged", "break"}) =>
                    \A r \in calc_Project_IRR(other) :
                        r.raised = "none" /\ Lt(ret.value, r.value)

----------------------------------------------------------------------------
(* Immutability of the inputs *)

\* C17: the values a calculator returns are fixed by the ProjectInputs it
\* was constructed with: ProjectInputs cannot be modified after
\* construction, so that no step between two calls on the same calculator
\* changes the inputs the calculator reads and reports, nor the year-1
\* revenue it computes from them.
C17_InputsFixedAfterConstruction ==
    [][/\ inputs' = inputs
       /\ calc_Revenue_year_t(inputs', 1) = calc_Revenue_year_t(inputs, 1)]_vars

----------------------------------------------------------------------------
(* Termination of the IRR iteration *)

\* C18: irr_calc terminates on every finite cash-flow list: it makes at
\* most 100 Newton passes, returns at the first iterate with |NPV| < 1e-6,
\* stops updating once |derivative| < 1e-10 and otherwise returns the rate
\* reached after the 100th update; it never raises.  Every call of
\* calc_Project_IRR and of calc_Equity_IRR, which pass their cash flows to
\* irr_calc, therefore returns a rate.
C18_IRRCalcReturnsARate ==
    ret.op \in {"calc_Project_IRR", "calc_Equity_IRR"} =>
        ret.raised = "none" /\ ret.value # None

----------------------------------------------------------------------------
(* Payback interpolation *)

\* C19: payback interpolation is exact.  Whenever a payback operation
\* returns p for the crossing year y with a non-zero period value,
\* (cumulative value through year y - 1) + (p - (y - 1)) * (period value of
\* year y) equals the threshold, 0 for the equity payback and Total_CapEx
\* for the project payback; the fraction p - (y - 1) is 0 when the period
\* value is exactly 0.  The crossing year is the first year whose cumulative
\* value is at or above the threshold, the cumulative value of the year
\* before being below it for the equity payback.
C19_PaybackInterpolationIsExact ==
    LET years == 1..inputs.Project_Lifetime
        exact(value, threshold, y, p) ==
            LET before == SumTo(value, 1, y - 1)
                fraction == Sub(p, I(y - 1))
            IN  IF IsZero(value[y])
                THEN IsZero(fraction)
                ELSE Add(before, Mul(fraction, value[y])) = threshold
        first(S) == CHOOSE y \in S : \A u \in S : y <= u
    IN  /\ ret.op = "calc_Equity_Payback_Period" =>
              LET fcf == [t \in years |-> calc_FCF_to_Equity_year_t(inputs, t)]
                  crossings == {t \in years : /\ Lt(SumTo(fcf, 1, t - 1), Zero)
                                               /\ Le(Zero, SumTo(fcf, 1, t))}
              IN  crossings # {} =>
                      /\ ret.value # None
                      /\ exact(fcf, Zero, first(crossings), ret.value)
        /\ ret.op = "calc_Project_Payback_Period" =>
              LET cfads == [t \in years |-> calc_CFADS_year_t(inputs, t)]
                  capex == calc_Total_CapEx(inputs)
                  crossings == {t \in years : Le(capex, SumTo(cfads, 1, t))}
              IN  crossings # {} =>
                      /\ ret.value # None
                      /\ exact(cfads, capex, first(crossings), ret.value)

\* calc_Equity_Payback_Period has returned a payback inside the second year:
\* the FCF to equity of year 1 is negative and that of year 2 more than
\* makes up for it
C19_Witness ==
    /\ ret.op = "calc_Equity_Payback_Period"
    /\ ret.value # None
    /\ Lt(calc_FCF_to_Equity_year_t(inputs, 1), Zero)
    /\ Lt(One, ret.value)
    /\ Lt(ret.value, I(2))

----------------------------------------------------------------------------
(* Reporting of an undefined DSCR *)

\* C20: an undefined DSCR is never reported as the number 0: in the yearly
\* series of generate_yearly_data every entry of a year for which
\* calc_DSCR_year_t is null is null, and in the audit log of
\* generate_calculation_audit_log the results of the steps "DSCR Year 1",
\* "Minimum DSCR" and "Average DSCR" are null whenever calc_DSCR_year_t(1),
\* calc_Minimum_DSCR and calc_Average_DSCR are.
C20_UndefinedDSCRIsReportedNull ==
    /\ ret.op = "generate_yearly_data" =>
          \A t \in 1..inputs.Project_Lifetime :
              calc_DSCR_year_t(inputs, t) = None => ret.value.dscr[t] = None
    /\ (ret.op = "generate_calculation_audit_log" /\ ret.raised = "none") =>
          /\ calc_DSCR_year_t(inputs, 1) = None => ret.value.calculation_steps[15] = None
          /\ calc_Minimum_DSCR(inputs) = None => ret.value.calculation_steps[21] = None
          /\ calc_Average_DSCR(inputs) = None => ret.value.calculation_steps[22] = None

----------------------------------------------------------------------------
(* Free cash flow to equity *)

\* C21: for every year t in 1..Project_Lifetime,
\* calc_FCF_to_Equity_year_t(t) equals CFADS(t) minus the annual debt
\* service when t <= Debt_Tenor, and equals CFADS(t) when t > Debt_Tenor.
C21_FCFIsCFADSLessDebtService ==
    ret.op = "calc_FCF_to_Equity_year_t" =>
        /\ ret.args[1] \in 1..inputs.Project_Lifetime
        /\ ret.args[1] <= inputs.Debt_Tenor =>
              ret.value = Sub(calc_CFADS_year_t(inputs, ret.args[1]),
                              calc_Annual_Debt_Service(inputs))
        /\ ret.args[1] > inputs.Debt_Tenor =>
              ret.value = calc_CFADS_year_t(inputs, ret.args[1])

\* calc_FCF_to_Equity_year_t has returned for a year after the tenor of a
\* project that carries a debt service
C21_Witness ==
    /\ ret.op = "calc_FCF_to_Equity_year_t"
    /\ ret.args[1] > inputs.Debt_Tenor
    /\ Lt(Zero, calc_Annual_Debt_Service(inputs))
    /\ ~IsZero(ret.value)


----------------------------------------------------------------------------
(* Annual debt service *)

\* C22: calc_Annual_Debt_Service() equals
\* -pmt_calc(Interest_Rate, Debt_Tenor, Final_Debt, 0) and is a positive
\* outflow: at least 0, and above 0 whenever the final debt is not zero;
\* pmt_calc with rate 0 returns -(pv + fv) / nper.
C22_DebtServiceIsPositiveOutflow ==
    ret.op = "calc_Annual_Debt_Service" =>
        /\ ret.value = Neg(pmt_calc(inputs.Interest_Rate, inputs.Debt_Tenor,
                                    calc_Final_Debt(inputs), Zero))
        /\ Le(Zero, ret.value)
        /\ ~IsZero(calc_Final_Debt(inputs)) => Lt(Zero, ret.value)
        /\ pmt_calc(Zero, inputs.Debt_Tenor, calc_Final_Debt(inputs), ret.value)
              = Neg(Div(Add(calc_Final_Debt(inputs), ret.value),
                        I(inputs.Debt_Tenor)))

----------------------------------------------------------------------------
(* Range of a payback period *)

\* C23 as stated: a non-null payback period p, equity or project, satisfies
\* 0 < p <= Project_Lifetime, and the cumulative series summed through year
\* floor(p) + 1 has reached its threshold: the cumulative FCF to equity is
\* >= 0 for the equity payback, the cumulative CFADS is >= Total_CapEx for
\* the project payback.
C23_PaybackReachedByYearAfterFloor ==
    LET payback_year == (ret.value[1] \div ret.value[2]) + 1
        in_range == /\ Lt(Zero, ret.value)
                    /\ Le(ret.value, I(inputs.Project_Lifetime))
    IN  /\ (ret.op = "calc_Equity_Payback_Period" /\ ret.value # None) =>
              LET fcf == [year \in 1..payback_year |->
                             calc_FCF_to_Equity_year_t(inputs, year)]
              IN  in_range /\ Le(Zero, SumTo(fcf, 1, payback_year))
        /\ (ret.op = "calc_Project_Payback_Period" /\ ret.value # None) =>
              LET cfads == [year \in 1..payback_year |->
                               calc_CFADS_year_t(inputs, year)]
              IN  in_range /\ Le(calc_Total_CapEx(inputs),
                                 SumTo(cfads, 1, payback_year))

\* C23: a non-null payback period p, equity or project, satisfies
\* 0 < p <= Project_Lifetime, and the cumulative series summed through year
\* ceil(p), the year in which p lies, has reached its threshold: the
\* cumulative FCF to equity is >= 0 for the equity payback, the cumulative
\* CFADS is >= Total_CapEx for the project payback.  ceil(p) is
\* floor(p) + 1 unless p is a whole number of years.
C23_PaybackReachedByItsYear ==
    LET payback_year == (ret.value[1] + ret.value[2] - 1) \div ret.value[2]
        in_range == /\ Lt(Zero, ret.value)
                    /\ Le(ret.value, I(inputs.Project_Lifetime))
    IN  /\ (ret.op = "calc_Equity_Payback_Period" /\ ret.value # None) =>
              LET fcf == [year \in 1..payback_year |->
                             calc_FCF_to_Equity_year_t(inputs, year)]
              IN  in_range /\ Le(Zero, SumTo(fcf, 1, payback_year))
        /\ (ret.op = "calc_Project_Payback_Period" /\ ret.value # None) =>
              LET cfads == [year \in 1..payback_year |->
                               calc_CFADS_year_t(inputs, year)]
              IN  in_range /\ Le(calc_Total_CapEx(inputs),
                                 SumTo(cfads, 1, payback_year))

\* calc_Equity_Payback_Period has returned a whole number of years p, and
\* the FCF to equity of year p + 1 takes the cumulative value below 0 again
C23_Witness ==
    /\ ret.op = "calc_Equity_Payback_Period"
    /\ ret.value # None
    /\ ret.value[2] = 1
    /\ Lt(SumTo([year \in 1..(ret.value[1] + 1) |->
                    calc_FCF_to_Equity_year_t(inputs, year)],
                1, ret.value[1] + 1), Zero)

----------------------------------------------------------------------------
(* Order of the two payback periods *)

\* C24: whenever calc_Equity_Payback_Period() and
\* calc_Project_Payback_Period() are both non-null, the equity payback
\* period is greater than or equal to the project payback period.
C24_EquityPaybackNotBeforeProjectPayback ==
    ret.op \in {"calc_Equity_Payback_Period", "calc_Project_Payback_Period"} =>
        LET equity_payback ==
                IF ret.op = "calc_Equity_Payback_Period"
                THEN ret.value ELSE calc_Equity_Payback_Period(inputs)
            project_payback ==
                IF ret.op = "calc_Project_Payback_Period"
                THEN ret.value ELSE calc_Project_Payback_Period(inputs)
        IN  (equity_payback # None /\ project_payback # None) =>
                Le(project_payback, equity_payback)

----------------------------------------------------------------------------
(* Equity payback as the break-even of the equity investment *)

\* C25: a non-null equity payback period p is the break-even point at which
\* the equity investment has been recovered: the FCF to equity accumulated
\* up to p, with linear interpolation inside the year in which p lies, is at
\* least calc_Equity(), and the FCF accumulated to the end of every earlier
\* year is less than calc_Equity().
C25_EquityPaybackRecoversEquity ==
    (ret.op = "calc_Equity_Payback_Period" /\ ret.value # None) =>
        LET whole == ret.value[1] \div ret.value[2]
            fraction == Sub(ret.value, I(whole))
            fcf == [year \in 1..(whole + 1) |->
                       calc_FCF_to_Equity_year_t(inputs, year)]
            accumulated == IF IsZero(fraction)
                           THEN SumTo(fcf, 1, whole)
                           ELSE Add(SumTo(fcf, 1, whole),
                                    Mul(fraction, fcf[whole + 1]))
        IN  /\ Le(calc_Equity(inputs), accumulated)
            /\ \A year \in 1..whole :
                  Lt(I(year), ret.value) =>
                      Lt(SumTo(fcf, 1, year), calc_Equity(inputs))

----------------------------------------------------------------------------
(* Operations leave the calculator as it was *)

----------------------------------------------------------------------------
(* Range of the debt and of the equity *)

\* C27: for every input in the valid domains,
\* 0 <= calc_Final_Debt() <= Total_CapEx * Gearing_Ratio and
\* 0 <= calc_Equity() <= Total_CapEx, also when CFADS is negative during the
\* tenor because the revenue is below the O&M cost.
C27_DebtAndEquityWithinCapEx ==
    /\ ret.op = "calc_Final_Debt" =>
          /\ Le(Zero, ret.value)
          /\ Le(ret.value, Mul(calc_Total_CapEx(inputs), inputs.Gearing_Ratio))
    /\ ret.op = "calc_Equity" =>
          /\ Le(Zero, ret.value)
          /\ Le(ret.value, calc_Total_CapEx(inputs))

----------------------------------------------------------------------------
(* Identities of the yearly series *)

\* C28: the series returned by generate_yearly_data have exactly one entry
\* per year 1..Project_Lifetime in increasing order, and every year t
\* satisfies fcf_to_equity[t] = cfads[t] - debt_service[t],
\* ebitda[t] = revenue[t] - om_costs[t], debt_service[t] = 0 for
\* t > Debt_Tenor, and cumulative_fcf_to_equity[t] =
\* cumulative_fcf_to_equity[t-1] + fcf_to_equity[t], the cumulative value
\* being 0 before year 1.
C28_YearlySeriesIdentities ==
    ret.op = "generate_yearly_data" =>
        LET data == ret.value
            lifetime == inputs.Project_Lifetime
        IN  /\ \A key \in DOMAIN data : Len(data[key]) = lifetime
            /\ \A t \in 1..lifetime :
                  /\ data.years[t] = t
                  /\ data.fcf_to_equity[t] = Sub(data.cfads[t], data.debt_service[t])
                  /\ data.ebitda[t] = Sub(data.revenue[t], data.om_costs[t])
                  /\ t > inputs.Debt_Tenor => data.debt_service[t] = Zero
                  /\ data.cumulative_fcf_to_equity[t] =
                        Add(IF t = 1 THEN Zero
                            ELSE data.cumulative_fcf_to_equity[t - 1],
                            data.fcf_to_equity[t])

\* generate_yearly_data has returned series that run past the tenor of a
\* project with a debt service
C28_Witness ==
    /\ ret.op = "generate_yearly_data"
    /\ inputs.Debt_Tenor < inputs.Project_Lifetime
    /\ ~IsZero(ret.value.debt_service[1])
    /\ IsZero(ret.value.debt_service[inputs.Project_Lifetime])
    /\ ~IsZero(ret.value.fcf_to_equity[inputs.Project_Lifetime])

----------------------------------------------------------------------------
(* Amortisation of the final debt *)

\* C29 as stated: the annual debt service amortises the final debt: the sum
\* over t = 1..Debt_Tenor of annual debt service / (1 + Interest_Rate)^t
\* equals Final_Debt; the sum of CFADS(t) / (1 + Interest_Rate)^t over the
\* tenor is >= Target_DSCR times that sum, with equality exactly when the
\* DSCR cap determines the debt; and with constant CFADS and the DSCR cap
\* determining the debt, DSCR(t) = Target_DSCR for every t <= Debt_Tenor.
C29_DebtServiceAmortisesDebt ==
    ret.op = "calc_Annual_Debt_Service" =>
        LET tenor == 1..inputs.Debt_Tenor
            pv_debt_service ==
                SumTo([t \in tenor |->
                          Div(ret.value, Pow(Add(One, inputs.Interest_Rate), t))],
                      1, inputs.Debt_Tenor)
            pv_cfads ==
                SumTo([t \in tenor |->
                          Div(calc_CFADS_year_t(inputs, t),
                              Pow(Add(One, inputs.Interest_Rate), t))],
                      1, inputs.Debt_Tenor)
            dscr_binds == calc_Final_Debt(inputs) = calc_Max_Debt_by_DSCR(inputs)
            constant_cfads ==
                \A t \in tenor : calc_CFADS_year_t(inputs, t) = calc_CFADS_year_t(inputs, 1)
        IN  /\ pv_debt_service = calc_Final_Debt(inputs)
            /\ Le(Mul(inputs.Target_DSCR, pv_debt_service), pv_cfads)
            /\ pv_cfads = Mul(inputs.Target_DSCR, pv_debt_service) <=> dscr_binds
            /\ (constant_cfads /\ dscr_binds) =>
                  \A t \in tenor : calc_DSCR_year_t(inputs, t) = inputs.Target_DSCR

\* C29: the annual debt service amortises the final debt: the sum over
\* t = 1..Debt_Tenor of annual debt service / (1 + Interest_Rate)^t equals
\* Final_Debt; the sum of CFADS(t) / (1 + Interest_Rate)^t over the tenor is
\* >= Target_DSCR times that sum, with equality exactly when the DSCR cap
\* determines the debt; and with constant CFADS that is not 0 and the DSCR
\* cap determining the debt, DSCR(t) = Target_DSCR for every
\* t <= Debt_Tenor.  With a constant CFADS of 0 the debt is 0 and DSCR(t)
\* is null.
C29_DebtServiceAmortisesDebtAndDSCRIsTarget ==
    ret.op = "calc_Annual_Debt_Service" =>
        LET tenor == 1..inputs.Debt_Tenor
            pv_debt_service ==
                SumTo([t \in tenor |->
                          Div(ret.value, Pow(Add(One, inputs.Interest_Rate), t))],
                      1, inputs.Debt_Tenor)
            pv_cfads ==
                SumTo([t \in tenor |->
                          Div(calc_CFADS_year_t(inputs, t),
                              Pow(Add(One, inputs.Interest_Rate), t))],
                      1, inputs.Debt_Tenor)
            dscr_binds == calc_Final_Debt(inputs) = calc_Max_Debt_by_DSCR(inputs)
            constant_cfads ==
                \A t \in tenor : calc_CFADS_year_t(inputs, t) = calc_CFADS_year_t(inputs, 1)
        IN  /\ pv_debt_service = calc_Final_Debt(inputs)
            /\ Le(Mul(inputs.Target_DSCR, pv_debt_service), pv_cfads)
            /\ pv_cfads = Mul(inputs.Target_DSCR, pv_debt_service) <=> dscr_binds
            /\ (constant_cfads /\ dscr_binds) =>
                  \A t \in tenor :
                      calc_DSCR_year_t(inputs, t) =
                          IF IsZero(calc_CFADS_year_t(inputs, 1))
                          THEN None
                          ELSE inputs.Target_DSCR

\* calc_Annual_Debt_Service has returned the service of a debt sized by the
\* DSCR cap, below the gearing cap, over a tenor of more than one year
C29_Witness ==
    /\ ret.op = "calc_Annual_Debt_Service"
    /\ inputs.Debt_Tenor > 1
    /\ Lt(Zero, ret.value)
    /\ Lt(calc_Max_Debt_by_DSCR(inputs), calc_Max_Debt_by_Gearing(inputs))

----------------------------------------------------------------------------
(* Minimum DSCR of the report and of the yearly series *)

\* C30: for one calculator, key_metrics.min_dscr of the summary report equals
\* the minimum of the non-null dscr entries of the yearly series of
\* generate_yearly_data, for every valid input, Debt_Tenor >
\* Project_Lifetime included.
C30_ReportMinDSCRIsMinOfYearlySeries ==
    (ret.op = "generate_summary_report" /\ ret.raised = "none") =>
        LET dscr == SelectSeq(generate_yearly_data(inputs).dscr,
                              LAMBDA d : d # None)
        IN  /\ dscr # << >>
            /\ ret.value.key_metrics.min_dscr = MinSeq(dscr)

====
